---- MODULE Spec2Model ----
(***************************************************************************)
(* PC-BASIC devices, files and I/O operations (pcbasic/basic/devices/      *)
(* devicebase.py).  Bytes are integers 0..255, byte strings are sequences  *)
(* of bytes; the empty string is << >>.                                    *)
(***************************************************************************)
EXTENDS Integers, Sequences, FiniteSets, TLC

VARIABLES files, device_file, display, calls, ret,   \* master-file devices
          tf, tout, tret,                           \* a text file written to
          rf, stream, rret,                         \* a file read from
          iret,                                     \* INPUT# from that file
          kf, keyboard, kret,                       \* the keyboard file
          cret,                                     \* any read from that file
          voice_queue, foreground, synch, sound_on, \* the sound queues
          waiting, sret,
          session, aret                             \* a Session of the API

devVars == <<files, device_file, display, calls, ret>>
textVars == <<tf, tout, tret>>
readVars == <<rf, stream, rret>>
inputVars == <<iret>>
kybdVars == <<kf, keyboard, kret>>
charsVars == <<cret>>
soundVars == <<voice_queue, foreground, synch, sound_on, waiting, sret>>
apiVars == <<session, aret>>
vars == <<devVars, textVars, readVars, inputVars, kybdVars, charsVars, soundVars,
          apiVars>>
\* what the operations on the devices, on the written file and on the file
\* read leave alone
nonDevVars ==
    <<textVars, readVars, inputVars, kybdVars, charsVars, soundVars, apiVars>>
nonTextVars ==
    <<devVars, readVars, inputVars, kybdVars, charsVars, soundVars, apiVars>>
nonReadVars ==
    <<devVars, textVars, inputVars, kybdVars, charsVars, soundVars, apiVars>>
nonInputVars ==
    <<devVars, textVars, rret, kybdVars, charsVars, soundVars, apiVars>>
nonKybdVars ==
    <<devVars, textVars, readVars, inputVars, charsVars, soundVars, apiVars>>
nonCharsVars == <<devVars, textVars, rret, inputVars, kybdVars, soundVars, apiVars>>
nonSoundVars ==
    <<devVars, textVars, readVars, inputVars, kybdVars, charsVars, apiVars>>
nonApiVars ==
    <<devVars, textVars, readVars, inputVars, kybdVars, charsVars, soundVars>>

(***************************************************************************)
(* Byte codes used by the code.                                            *)
(***************************************************************************)
NUL == 0
BS == 8
TAB == 9
LF == 10
CR == 13
\* the soft end of file
EOFCHAR == 26
\* read_line cuts a line at 255 characters
MaxLineLen == 255
\* None, the terminator of a line that was cut
None == <<-1>>
SPACE == 32
QUOTE == 34
COMMA == 44
\* input_entry cuts a value at 255 characters
MaxEntryLen == 255
\* ord(c) >= 32: the characters counted for WIDTH
FirstPrintable == 32
\* width 255 means unlimited width
NoWrapWidth == 255
\* col-1 is a byte that wraps: col 257 becomes col 1
ColWrap == 257

MagicOfLetter(filetype) ==
    IF filetype \in {"B", "P", "M"} THEN <<255>> ELSE << >>
\* TYPE_TO_MAGIC: the magic byte string for a file type, b'' when it has none.
TYPE_TO_MAGIC(filetype) ==
    CASE filetype = "B" -> <<255>>
      [] filetype = "P" -> <<254>>
      [] filetype = "M" -> <<253>>
      [] OTHER -> << >>

(***************************************************************************)
(* Bounds of the model.                                                    *)
(***************************************************************************)
\* clones that may be opened on the devices
MaxClones == 2
\* clones that may be opened on SCRN: while it is written to
MaxScrnClones == 1
\* length of the strings handed to SCRN: write
MaxScrnLen == 1
\* rows of the text screen (mode.height of the display)
Height == 2
\* a printable byte: the letter written and read
LETTER == 65
\* length of the strings handed to TextFileBase.write
MaxTextLen == 2
\* the stream calls of one operation at which a fault is raised: none, or
\* one of the first MaxFailAt
MaxFailAt == 2
\* length of the short streams read
MaxContentLen == 4
\* read_line calls made on one file
MaxReads == 6
\* length of the short streams INPUT# reads
MaxInputLen == 4
MaxKeys == 3
MaxNum == 2
\* length of the streams read in every way
MaxCharsLen == 4
\* length of the inputs given to both tokenizers, before their CR
MaxBothLen == 4
\* length of the console lines typed
MaxLineTyped == 4
\* items queued on the tone voices when a sound statement begins
MaxQueued == 2
\* commands in a string of PLAY
MaxMml == 2
\* the duration of a timed SOUND, in sixteenths of a second
MaxSoundDur == 2
\* calls made on a Session
MaxApiSteps == 4

Modes == {"I", "O", "R", "A"}
\* the modes SCRN: is opened with in SpecScrn: one it refuses, the two it allows
ScrnModes == {"I", "O", "R"}
FileTypes == {"B", "P", "M", "D"}
\* reclen=128 is the default of open_clone
DefaultRecLen == 128
\* the (filetype, reclen) pairs files are opened with in SpecDev: file types
\* without a magic byte, so that opening leaves the cursor where it is
DevOpenArgs == {<<"A", 1>>, <<"D", DefaultRecLen>>}
\* widths a screen mode can have, and widths a file can be given
DisplayWidths == {1, 2}
Widths == {1, 2, 255}
ScrnChars == {LETTER, CR, BS}

RECURSIVE StringsUpTo(_, _)
StringsUpTo(chars, n) ==
    IF n = 0 THEN {<< >>}
    ELSE LET shorter == StringsUpTo(chars, n - 1)
         IN shorter \cup {Append(s, c) : s \in {t \in shorter : Len(t) = n - 1}, c \in chars}

ScrnStrings == StringsUpTo(ScrnChars, MaxScrnLen)

\* the letter n times
Run(n) == [i \in 1..n |-> LETTER]
TextChars == {LETTER, TAB, CR, LF}
\* the strings written to a text file: the short ones, and the run that
\* takes col from 1 through all its values
TextStrings == StringsUpTo(TextChars, MaxTextLen) \cup {Run(ColWrap - 1)}
TextWidths == {1, 2, 3, 254, NoWrapWidth}

ReadChars == {LETTER, LF, CR, EOFCHAR}
\* what follows a long run of letters in a stream
Tails == {<< >>, <<LETTER>>, <<CR>>, <<EOFCHAR>>, <<CR, LETTER>>, <<LETTER, CR>>}
\* the streams read, and the keyboard buffers: the short ones, and runs of
\* letters one short of the 255 characters of a full line, and as long
Contents ==
    StringsUpTo(ReadChars, MaxContentLen)
       \cup {Run(n) \o tail : n \in {MaxLineLen - 1, MaxLineLen}, tail \in Tails}

InputChars == {LETTER, SPACE, COMMA, CR, LF, NUL, QUOTE, EOFCHAR}
\* two numeric fields, as in "  12.5 , 3" CR
TwoNumbers == <<SPACE, SPACE, LETTER, LETTER, SPACE, COMMA, SPACE, LETTER, CR>>
\* a quoted field with a comma in it, two spaces and a comma, as in
\* "hello, world" and then "  ,"
QuotedField ==
    <<QUOTE, LETTER, COMMA, SPACE, LETTER, QUOTE, SPACE, SPACE, COMMA, LETTER>>
\* what follows a long field
LongTails ==
    {<< >>, <<LETTER>>, <<COMMA>>, <<SPACE, LETTER>>, <<SPACE, SPACE>>,
     <<LETTER, COMMA>>, <<QUOTE, COMMA>>}
\* fields of 254 and of 255 and more characters, with and without a quote
LongFields ==
    {pre \o Run(n) \o tail : pre \in {<< >>, <<QUOTE>>},
                             n \in {MaxEntryLen - 1, MaxEntryLen},
                             tail \in LongTails}
\* a field with LF and CR in it, as in "A\n\rB,"
LfCrField == <<LETTER, LF, CR, LETTER, COMMA>>
\* the streams INPUT# reads: the short ones, the three above and the long fields
InputContents ==
    StringsUpTo(InputChars, MaxInputLen) \cup {TwoNumbers, QuotedField, LfCrField}
       \cup LongFields
\* the keys typed: one-byte keys and eascii codes
Keys ==
    {<<LETTER>>, <<QUOTE>>, <<SPACE>>, <<COMMA>>, <<CR>>, <<NUL, 71>>, <<NUL, 73>>,
     <<NUL, 59>>, <<NUL, 94>>}
\* a quoted field, what may stand between its closing quote and the next
\* field, and that field
AfterQuote ==
    {<<<<QUOTE>>, <<LETTER>>, <<QUOTE>>>> \o gap \o <<key>> \o rest :
        gap \in {<< >>, <<<<SPACE>>>>},
        key \in {<<LETTER>>, <<QUOTE>>, <<COMMA>>, <<NUL, 71>>},
        rest \in {<<<<COMMA>>>>, <<<<LETTER>>, <<CR>>>>, <<<<QUOTE>>, <<COMMA>>>>}}
\* letters typed up to one short of the 255 characters of a full field, and
\* the keys after them
LongKeys ==
    {[i \in 1..(MaxEntryLen - 1) |-> <<LETTER>>] \o tail :
        tail \in {<<<<NUL, 71>>, <<CR>>>>, <<<<LETTER>>, <<LETTER>>>>}}
\* the sequences of keys typed: the short ones, and those above
KeyBuffers == StringsUpTo(Keys, MaxKeys) \cup AfterQuote
\* the string written in SpecDev leaves the cursor where it is
DevStrings == {<< >>}

(***************************************************************************)
(* The display, as SCRNFile and KYBDFile consume it: current_col,          *)
(* current_row, mode.width, mode.height, the overflow flag, write,         *)
(* write_line and set_width.  Every call is logged with its echo flag.     *)
(***************************************************************************)
DisplayNewline(d) ==
    [d EXCEPT !.col = 1, !.row = IF d.row < Height THEN d.row + 1 ELSE Height,
              !.overflow = FALSE]

\* display.text_screen.write(c, do_echo): the cursor moves whether or not
\* the character is echoed.
DisplayWrite(d, c) ==
    IF c \in {CR, LF} THEN DisplayNewline(d)
    ELSE IF c = BS THEN [d EXCEPT !.col = IF d.col > 1 THEN d.col - 1 ELSE 1,
                                  !.overflow = FALSE]
    ELSE IF c < FirstPrintable THEN d
    ELSE LET at == IF d.overflow THEN DisplayNewline(d) ELSE d
         IN IF at.col >= at.width THEN [at EXCEPT !.overflow = TRUE]
            ELSE [at EXCEPT !.col = at.col + 1]

DisplayWriteLine(d) == DisplayNewline(d)

\* display.set_width(w): a mode change, which clears the screen.
DisplaySetWidth(d, w) == [width |-> w, col |-> 1, row |-> 1, overflow |-> FALSE]

CallWrite(c, echo) == [fn |-> "write", arg |-> c, echo |-> echo]
CallWriteLine(echo) == [fn |-> "write_line", arg |-> 0, echo |-> echo]
CallSetWidth(w) == [fn |-> "set_width", arg |-> w, echo |-> FALSE]

(***************************************************************************)
(* Files of the master-file devices.  A file object is a record; its       *)
(* identity is its index in files.  For a SCRNFile width and col are the   *)
(* private _width and _col; reclen is 0 on a file that was never given one.*)
(***************************************************************************)
SCRNFile(d) ==
    [cls |-> "SCRNFile", is_master |-> TRUE, mode |-> "O", filetype |-> "D",
     reclen |-> 0, width |-> d.width, col |-> d.col, closed |-> FALSE]

KYBDFile ==
    [cls |-> "KYBDFile", is_master |-> TRUE, mode |-> "A", filetype |-> "D",
     reclen |-> 0, width |-> NoWrapWidth, col |-> 1, closed |-> FALSE]

\* SCRNFile.col and SCRNFile.width
ScrnCol(f, d) == IF f.is_master THEN d.col ELSE f.col
ScrnWidth(f, d) == IF f.is_master THEN d.width ELSE f.width

\* the part of s before its first CR or LF
FirstLine(s) ==
    LET ends == {i \in 1..Len(s) : s[i] \in {CR, LF}}
    IN IF ends = {} THEN s
       ELSE SubSeq(s, 1, (CHOOSE i \in ends : \A j \in ends : i <= j) - 1)

\* s_width as SCRNFile.write counts it: backspace takes one off
RECURSIVE ScrnSWidth(_)
ScrnSWidth(s) ==
    IF s = << >> THEN 0
    ELSE (IF Head(s) = BS THEN -1 ELSE IF Head(s) >= FirstPrintable THEN 1 ELSE 0)
         + ScrnSWidth(Tail(s))

ScrnEchoAlways(f) == TRUE
\* do_echo of SCRNFile.write and SCRNFile.write_line
ScrnEcho(f) == f.is_master

\* the loop of SCRNFile.write over the characters of s; st is
\* [f: the file, d: the display, calls: the calls made so far]
RECURSIVE ScrnWriteLoop(_, _, _)
ScrnWriteLoop(st, s, cwidth) ==
    IF s = << >> THEN st
    ELSE LET c == Head(s)
             echo == ScrnEcho(st.f)
             wrap == ScrnWidth(st.f, st.d) <= cwidth
                     /\ ScrnCol(st.f, st.d) > ScrnWidth(st.f, st.d)
             st1 == IF wrap
                    THEN [f |-> [st.f EXCEPT !.col = 1],
                          d |-> DisplayWriteLine(st.d),
                          calls |-> Append(st.calls, CallWriteLine(echo))]
                    ELSE st
             show == ScrnCol(st1.f, st1.d) <= cwidth
                     \/ ScrnWidth(st1.f, st1.d) <= cwidth
             st2 == IF show
                    THEN [st1 EXCEPT !.d = DisplayWrite(st1.d, c),
                                     !.calls = Append(st1.calls, CallWrite(c, echo))]
                    ELSE st1
             st3 == [st2 EXCEPT !.f.col = IF c \in {LF, CR} THEN 1 ELSE st2.f.col + 1]
         IN ScrnWriteLoop(st3, Tail(s), cwidth)

\* the start of SCRNFile.write: _col is taken from the screen, one higher
\* when the screen has overflowed its last column
ScrnStart(f, d) == [f EXCEPT !.col = d.col + (IF d.overflow THEN 1 ELSE 0)]

\* the test of SCRNFile.write for a line break before the string, on the
\* file f0 that ScrnStart gives
ScrnBreaks(f0, d, s, can_break) ==
    LET s_width == ScrnSWidth(FirstLine(s))
        newline == FirstLine(s) /= s
    IN can_break /\ ScrnWidth(f0, d) /= NoWrapWidth /\ d.row /= Height
       /\ ScrnCol(f0, d) /= 1
       /\ ScrnCol(f0, d) - 1 + s_width > ScrnWidth(f0, d)
       /\ ~newline

\* SCRNFile.write(s, can_break) by file f on display d
ScrnWrite(f, d, s, can_break) ==
    LET echo == ScrnEcho(f)
        f0 == ScrnStart(f, d)
        st0 == IF ScrnBreaks(f0, d, s, can_break)
               THEN [f |-> [f0 EXCEPT !.col = 1], d |-> DisplayWriteLine(d),
                     calls |-> <<CallWriteLine(echo)>>]
               ELSE [f |-> f0, d |-> d, calls |-> << >>]
    IN ScrnWriteLoop(st0, s, st0.d.width)

\* SCRNFile.write_line(inp)
ScrnWriteLine(f, d, inp) ==
    LET st == ScrnWrite(f, d, inp, TRUE)
    IN [st EXCEPT !.d = DisplayWriteLine(st.d),
                  !.calls = Append(st.calls, CallWriteLine(ScrnEcho(st.f)))]

\* SCRNFile.open_clone and KYBDFile.open_clone: a new file object
OpenCloneObject(master, d, filetype, mode, reclen) ==
    [(IF master.cls = "SCRNFile" THEN SCRNFile(d) ELSE KYBDFile)
        EXCEPT !.mode = mode, !.reclen = reclen, !.filetype = filetype,
               !.is_master = FALSE]

OpenCloneAlias(fs, m, d, filetype, mode, reclen) ==
    [heap |-> [fs EXCEPT ![m] = [@ EXCEPT !.mode = mode, !.reclen = reclen,
                                          !.filetype = filetype]],
     file |-> m]
\* open_clone on the heap fs: the heap with the new object, and its identity
OpenClone(fs, m, d, filetype, mode, reclen) ==
    [heap |-> Append(fs, OpenCloneObject(fs[m], d, filetype, mode, reclen)),
     file |-> Len(fs) + 1]

(***************************************************************************)
(* Devices.  DEVICE is a Device that was given no master file.             *)
(***************************************************************************)
Devices == {"SCRN", "KYBD", "DEVICE"}

allowed_modes(dev) ==
    CASE dev = "SCRN" -> {"O", "R"}
      [] dev = "KYBD" -> {"I", "R"}
      [] OTHER -> {}

DeviceOpenModeFirst(dev, mode) ==
    IF mode \notin allowed_modes(dev) THEN "BAD_FILE_MODE"
    ELSE IF device_file[dev] = 0 THEN "DEVICE_UNAVAILABLE"
    ELSE "ok"
\* the checks of Device.open, in their order
DeviceOpenCheck(dev, mode) ==
    IF device_file[dev] = 0 THEN "DEVICE_UNAVAILABLE"
    ELSE IF mode \notin allowed_modes(dev) THEN "BAD_FILE_MODE"
    ELSE "ok"

Ret(op, dev, file, res) ==
    [op |-> op, dev |-> dev, file |-> file, res |-> res,
     mode |-> "", filetype |-> "", reclen |-> 0, s |-> << >>, w |-> 0]

\* Device.open / SCRNDevice.open; maxclones bounds the clones that may exist
Open(dev, filetype, mode, reclen, maxclones) ==
    LET res == DeviceOpenCheck(dev, mode)
        r == [Ret("open", dev, 0, res) EXCEPT !.mode = mode]
    IN IF res /= "ok"
       THEN /\ ret' = r
            /\ calls' = << >>
            /\ UNCHANGED <<files, device_file, display, nonDevVars>>
       ELSE /\ Len(files) < 2 + maxclones
            /\ LET oc == OpenClone(files, device_file[dev], display, filetype, mode, reclen)
                   st == IF dev = "SCRN"
                         THEN ScrnWrite(oc.heap[oc.file], display,
                                        TYPE_TO_MAGIC(filetype), TRUE)
                         ELSE [f |-> oc.heap[oc.file], d |-> display, calls |-> << >>]
               IN /\ files' = [oc.heap EXCEPT ![oc.file] = st.f]
                  /\ display' = st.d
                  /\ calls' = st.calls
                  /\ ret' = [r EXCEPT !.file = oc.file, !.filetype = filetype,
                                      !.reclen = reclen]
            /\ UNCHANGED <<device_file, nonDevVars>>

SetWidthForwardsAlways(f) == TRUE
\* the test of SCRNFile.set_width and KYBDFile.set_width: who forwards to the display
SetWidthForwards(f) == f.is_master

\* SCRNFile.set_width and KYBDFile.set_width on file i; a master file is
\* only given a width the display has a mode for (the caller validates it)
SetWidth(i, w) ==
    LET f == files[i]
    IN /\ IF SetWidthForwards(f)
          THEN /\ w \in DisplayWidths
               /\ display' = DisplaySetWidth(display, w)
               /\ calls' = <<CallSetWidth(w)>>
               /\ UNCHANGED files
          ELSE /\ files' = IF f.cls = "SCRNFile"
                           THEN [files EXCEPT ![i].width = w]
                           ELSE files
               /\ calls' = << >>
               /\ UNCHANGED display
       /\ ret' = [Ret("set_width", "", i, "ok") EXCEPT !.w = w]
       /\ UNCHANGED <<device_file, nonDevVars>>

\* SCRNFile.write on file i
Write(i, s, can_break) ==
    /\ files[i].cls = "SCRNFile"
    /\ LET st == ScrnWrite(files[i], display, s, can_break)
       IN /\ files' = [files EXCEPT ![i] = st.f]
          /\ display' = st.d
          /\ calls' = st.calls
    /\ ret' = [Ret("write", "", i, "ok") EXCEPT !.s = s]
    /\ UNCHANGED <<device_file, nonDevVars>>

\* SCRNFile.write_line on file i
WriteLine(i, s) ==
    /\ files[i].cls = "SCRNFile"
    /\ LET st == ScrnWriteLine(files[i], display, s)
       IN /\ files' = [files EXCEPT ![i] = st.f]
          /\ display' = st.d
          /\ calls' = st.calls
    /\ ret' = [Ret("write_line", "", i, "ok") EXCEPT !.s = s]
    /\ UNCHANGED <<device_file, nonDevVars>>

\* the queries a SCRN file refuses
ScrnQueries == {"lof", "loc", "eof"}

ScrnQueryEofAnswers(f, query) ==
    IF query = "eof" THEN "ok" ELSE "BAD_FILE_MODE"
\* the outcome of SCRNFile.lof, SCRNFile.loc and SCRNFile.eof on file f
ScrnQueryResult(f, query) == "BAD_FILE_MODE"

\* SCRNFile.lof, SCRNFile.loc and SCRNFile.eof on file i
Query(i, query) ==
    /\ files[i].cls = "SCRNFile"
    /\ ret' = Ret(query, "", i, ScrnQueryResult(files[i], query))
    /\ calls' = << >>
    /\ UNCHANGED <<files, device_file, display, nonDevVars>>

\* Device.close: closes the master file, when the device has one
DeviceClose(dev) ==
    /\ files' = IF device_file[dev] /= 0
                THEN [files EXCEPT ![device_file[dev]].closed = TRUE]
                ELSE files
    /\ calls' = << >>
    /\ ret' = Ret("close", dev, device_file[dev], "ok")
    /\ UNCHANGED <<device_file, display, nonDevVars>>

\* the written file, where none is written to
IdleText ==
    /\ tf = [col |-> 1, width |-> NoWrapWidth]
    /\ tout = << >>
    /\ tret = [cls |-> "TextFileBase", op |-> "init", s |-> << >>,
               can_break |-> FALSE, res |-> "ok", col |-> 1, width |-> NoWrapWidth]

\* the file read, where none is read
IdleRead ==
    /\ rf = [cls |-> "TextFileBase", mode |-> "O",
             next_char |-> << >>, char |-> << >>, last |-> << >>]
    /\ stream = [data |-> << >>, pos |-> 0]
    /\ rret = [op |-> "init", line |-> << >>, term |-> << >>, res |-> FALSE,
               peeked |-> FALSE, n |-> 0, pos |-> 0, next_char |-> << >>]

\* INPUT#, before any
IdleInput ==
    iret = [op |-> "init", typechar |-> "$", allow_past_end |-> FALSE,
            word |-> << >>, term |-> << >>, res |-> "ok",
            pos |-> stream.pos, next_char |-> rf.next_char]

\* the keyboard file, where none is read
IdleKybd ==
    /\ kf = [input_last |-> << >>]
    /\ keyboard = [keys |-> << >>, pos |-> 0]
    /\ kret = [op |-> "init", typechar |-> "$", allow_past_end |-> FALSE,
               num |-> 0, word |-> << >>, term |-> << >>, res |-> "ok",
               input_last |-> << >>, pos |-> 0]

\* the reads of any kind, before any
IdleChars ==
    cret = [op |-> "init", num |-> 0, typechar |-> "$", allow_past_end |-> FALSE,
            out |-> << >>, term |-> << >>, res |-> "ok",
            f |-> rf, pos |-> stream.pos]

\* the sound queues, where no sound is made
IdleSound ==
    /\ voice_queue = [v \in 0..3 |-> [deque |-> << >>, balloon_popped |-> FALSE]]
    /\ foreground = TRUE
    /\ synch = FALSE
    /\ sound_on = FALSE
    /\ waiting = [on |-> FALSE, length |-> 0]
    /\ sret = [op |-> "init", voice |-> 0, synchs |-> 0, after |-> [v \in 0..2 |-> 0],
               mixed |-> FALSE,
               synch |-> FALSE, res |-> "ok"]

\* the session, where none is used
IdleApi ==
    /\ session = [impl |-> "None", interface |-> "None", entered |-> FALSE,
                  attached |-> "None", created |-> 0, impl_closes |-> 0,
                  steps |-> 0]
    /\ aret = [op |-> "init", impl |-> "None", on |-> "-", ex_type |-> "None",
               raised |-> "None", suppressed |-> FALSE, closes |-> 0]

\* the devices, where no device is used
IdleDev ==
    /\ display = [width |-> 1, col |-> 1, row |-> 1, overflow |-> FALSE]
    /\ files = << >>
    /\ device_file = [dev \in Devices |-> 0]
    /\ calls = << >>
    /\ ret = Ret("init", "", 0, "ok")

\* SCRNDevice.__init__, KYBDDevice.__init__ and Device.__init__
InitDev ==
    /\ display \in [width : DisplayWidths, col : {1}, row : {1}, overflow : {FALSE}]
    /\ files = <<SCRNFile(display), KYBDFile>>
    /\ device_file = [dev \in Devices |->
                        CASE dev = "SCRN" -> 1 [] dev = "KYBD" -> 2 [] OTHER -> 0]
    /\ calls = << >>
    /\ ret = Ret("init", "", 0, "ok")
    /\ IdleText
    /\ IdleRead
    /\ IdleInput
    /\ IdleKybd
    /\ IdleChars
    /\ IdleSound
    /\ IdleApi

(***************************************************************************)
(* RawFile and TextFileBase, written to.  The stream is the sequence of    *)
(* bytes handed to it; a stream call may raise EnvironmentError, and a     *)
(* call that raises writes nothing.  failAt is the number of the stream    *)
(* call of the operation that raises, 0 when none does.                    *)
(***************************************************************************)
\* safe_io: what the caller sees of what the stream access raised
SafeIO(raised) == IF raised = "EnvironmentError" THEN "DEVICE_IO_ERROR" ELSE raised

\* RawFile.close, RawFile.input_chars, RawFile.read and RawFile.write: one
\* stream call inside safe_io
RawFileOp(fault) == SafeIO(IF fault THEN "EnvironmentError" ELSE "ok")

\* s_width as TextFileBase.write counts it
TextSWidth(s) == Cardinality({i \in 1..Len(s) : s[i] >= FirstPrintable})

TextBreaksAtColOne(f, s, can_break) ==
    /\ can_break /\ f.width /= NoWrapWidth
    /\ f.col - 1 + TextSWidth(FirstLine(s)) > f.width
    /\ FirstLine(s) = s
\* the test of TextFileBase.write for a line break before the string
TextBreaks(f, s, can_break) ==
    /\ can_break /\ f.width /= NoWrapWidth /\ f.col /= 1
    /\ f.col - 1 + TextSWidth(FirstLine(s)) > f.width
    /\ FirstLine(s) = s

TextAdvanceNoWrap(col, c) ==
    IF c = CR THEN 1 ELSE IF c >= FirstPrintable THEN col + 1 ELSE col
\* col after character c was written
TextAdvance(col, c) ==
    IF c = CR THEN 1
    ELSE IF c >= FirstPrintable
         THEN (IF col + 1 = ColWrap THEN 1 ELSE col + 1)
         ELSE col

\* one turn of the loop of TextFileBase.write: self._fhandle.write(c), then
\* col; st is [col, out: the bytes written, n: the stream calls made, raised]
TextWriteChar(st, c, failAt) ==
    IF st.raised THEN st
    ELSE IF st.n + 1 = failAt THEN [st EXCEPT !.n = st.n + 1, !.raised = TRUE]
    ELSE [col |-> TextAdvance(st.col, c), out |-> Append(st.out, c),
          n |-> st.n + 1, raised |-> FALSE]

\* the loop over the characters of s, left to right (the first half of s,
\* then the second); what the stream raises ends it
RECURSIVE TextWriteChars(_, _, _)
TextWriteChars(st, s, failAt) ==
    IF s = << >> THEN st
    ELSE IF Len(s) = 1 THEN TextWriteChar(st, s[1], failAt)
    ELSE LET h == Len(s) \div 2
             first == TextWriteChars(st, SubSeq(s, 1, h), failAt)
         IN IF first.raised THEN first
            ELSE TextWriteChars(first, SubSeq(s, h + 1, Len(s)), failAt)

\* TextFileBase.write(s, can_break); the line break is self.write_line(),
\* which writes CR by the same loop
TextWrite(f, s, can_break, failAt) ==
    LET st0 == [col |-> f.col, out |-> << >>, n |-> 0, raised |-> FALSE]
        st1 == IF TextBreaks(f, s, can_break)
               THEN LET b == TextWriteChars(st0, <<CR>>, failAt)
                    IN IF b.raised THEN b ELSE [b EXCEPT !.col = 1]
               ELSE st0
    IN TextWriteChars(st1, s, failAt)

\* TextFileBase.write_line(s)
TextWriteLine(f, s, failAt) == TextWrite(f, s \o <<CR>>, TRUE, failAt)

\* the stream call that raises: none, or one of the first MaxFailAt (when
\* the operation makes that many)
FailPoints == 0..MaxFailAt

\* the last operation: its arguments, what its caller saw, and the col and
\* width it started from
TRet(cls, op, s, can_break, res) ==
    [cls |-> cls, op |-> op, s |-> s, can_break |-> can_break, res |-> res,
     col |-> tf.col, width |-> tf.width]

\* what the caller of TextFileBase.write sees: what the stream raised
TextWriteResult(st) == IF st.raised THEN "EnvironmentError" ELSE "ok"

\* TextFileBase.write
TWrite(s, can_break, failAt) ==
    /\ tret.op = "init"
    /\ LET st == TextWrite(tf, s, can_break, failAt)
       IN /\ tf' = [tf EXCEPT !.col = st.col]
          /\ tout' = st.out
          /\ tret' = TRet("TextFileBase", "write", s, can_break, TextWriteResult(st))
    /\ UNCHANGED nonTextVars

\* TextFileBase.write_line
TWriteLine(s, failAt) ==
    /\ tret.op = "init"
    /\ LET st == TextWriteLine(tf, s, failAt)
       IN /\ tf' = [tf EXCEPT !.col = st.col]
          /\ tout' = st.out
          /\ tret' = TRet("TextFileBase", "write_line", s, TRUE, TextWriteResult(st))
    /\ UNCHANGED nonTextVars

\* TextFileBase.set_width
TSetWidth(w) ==
    /\ tret.op = "init"
    /\ tf' = [tf EXCEPT !.width = w]
    /\ tout' = << >>
    /\ tret' = TRet("TextFileBase", "set_width", << >>, FALSE, "ok")
    /\ UNCHANGED nonTextVars

\* RawFile.close, input_chars, read and write; TextFileBase inherits close
RawOp(cls, op, fault) ==
    /\ tret.op = "init"
    /\ tret' = TRet(cls, op, << >>, FALSE, RawFileOp(fault))
    /\ tout' = << >>
    /\ UNCHANGED <<tf, nonTextVars>>

\* a TextFileBase that has been written to: any col and width (col k is
\* reached by writing k-1 letters at width 255, a width by set_width)
InitText ==
    /\ tf \in [col : 1..(ColWrap - 1), width : TextWidths]
    /\ tout = << >>
    /\ tret = [cls |-> "TextFileBase", op |-> "init", s |-> << >>,
               can_break |-> FALSE, res |-> "ok", col |-> tf.col, width |-> tf.width]
    /\ IdleDev
    /\ IdleRead
    /\ IdleInput
    /\ IdleKybd
    /\ IdleChars
    /\ IdleSound
    /\ IdleApi

(***************************************************************************)
(* SpecText: one operation on a RawFile or on a TextFileBase open for      *)
(* output, from every col and width.                                       *)
(***************************************************************************)
NextText ==
    \/ \E s \in TextStrings, can_break \in BOOLEAN, failAt \in FailPoints :
          TWrite(s, can_break, failAt)
    \/ \E s \in TextStrings, failAt \in FailPoints : TWriteLine(s, failAt)
    \/ \E w \in TextWidths : TSetWidth(w)
    \/ \E op \in {"close", "input_chars", "read", "write"}, fault \in BOOLEAN :
          RawOp("RawFile", op, fault)
    \/ \E fault \in BOOLEAN : RawOp("TextFileBase", "close", fault)

SpecText == InitText /\ [][NextText]_vars

(***************************************************************************)
(* TextFileBase and KYBDFile, read from.  A string is a sequence of at     *)
(* most one byte where the code holds a character ('' is the empty         *)
(* sequence); the stream is its data and the number of bytes read from     *)
(* it.  The streams read here do not raise.                                *)
(***************************************************************************)
\* self._fhandle.read(1)
StreamRead(st) ==
    IF st.pos < Len(st.data)
    THEN [c |-> <<st.data[st.pos + 1]>>, stream |-> [st EXCEPT !.pos = st.pos + 1]]
    ELSE [c |-> << >>, stream |-> st]

\* TextFileBase.__init__ with no first_char: the file and its stream
TextFileBase(data, mode) ==
    LET st == [data |-> data, pos |-> 0]
        r == IF mode \in {"I", "R"} THEN StreamRead(st) ELSE [c |-> << >>, stream |-> st]
    IN [f |-> [cls |-> "TextFileBase", mode |-> mode,
               next_char |-> r.c, char |-> << >>, last |-> << >>],
        stream |-> r.stream]

\* KYBDFile.__init__ and KYBDFile.open_clone: the file and the keyboard
KybdFile(keys, mode) ==
    [f |-> [cls |-> "KYBDFile", mode |-> mode,
            next_char |-> << >>, char |-> << >>, last |-> << >>],
     stream |-> [data |-> keys, pos |-> 0]]

\* TextFileBase.read_one: input_chars(1)
ReadOne(f, st) ==
    IF f.next_char \in {<<EOFCHAR>>, << >>}
    THEN [s |-> << >>, f |-> f, stream |-> st]
    ELSE LET r == StreamRead(st)
         IN [s |-> f.next_char,
             f |-> [f EXCEPT !.next_char = r.c, !.char = f.next_char, !.last = f.char],
             stream |-> r.stream]

LineEndsAtLF(c) == c = << >> \/ c = <<CR>> \/ c = <<LF>>
\* the test of read_line for the end of the line
LineEnds(c) == c = << >> \/ c = <<CR>>

CapTerminatorCR(f) == <<CR>>
\* the terminator of a line cut at 255 characters
CapTerminator(f) == IF f.next_char = <<CR>> THEN <<CR>> ELSE None

\* one turn of the loop of read_line; ls is [f, stream, out, c, done]
ReadLineTurn(ls) ==
    LET r == ReadOne(ls.f, ls.stream)
        out == ls.out \o r.s
    IN IF LineEnds(r.s)
       THEN [f |-> r.f, stream |-> r.stream, out |-> ls.out, c |-> r.s, done |-> TRUE]
       ELSE IF Len(out) = MaxLineLen
            THEN [f |-> r.f, stream |-> r.stream, out |-> out,
                  c |-> CapTerminator(r.f), done |-> TRUE]
            ELSE [f |-> r.f, stream |-> r.stream, out |-> out, c |-> r.s, done |-> FALSE]

\* up to k turns of the loop (the first half of them, then the rest)
RECURSIVE ReadLineTurns(_, _)
ReadLineTurns(ls, k) ==
    IF k = 1 THEN ReadLineTurn(ls)
    ELSE LET h == k \div 2
             first == ReadLineTurns(ls, h)
         IN IF first.done THEN first ELSE ReadLineTurns(first, k - h)

\* TextFileBase.read_line: the loop ends within MaxLineLen turns
ReadLine(f, st) ==
    ReadLineTurns([f |-> f, stream |-> st, out |-> << >>, c |-> << >>, done |-> FALSE],
                  MaxLineLen)

TextEofAnyMode(f) == f.next_char \in {<< >>, <<EOFCHAR>>}
\* TextFileBase.eof
TextEof(f) ==
    IF f.mode \in {"A", "O"} THEN FALSE
    ELSE f.next_char \in {<< >>, <<EOFCHAR>>}

\* keyboard.peek_byte_kybd_file: the next key, which stays in the buffer
PeekByte(st) == <<st.data[st.pos + 1]>>

\* KYBDFile.eof: the answer, and whether the keyboard was peeked
KybdEof(f, st) ==
    IF f.mode \in {"A", "O"} THEN [res |-> FALSE, peeked |-> FALSE]
    ELSE [res |-> PeekByte(st) = <<EOFCHAR>>, peeked |-> TRUE]

\* the last operation: n counts the read_line calls made so far
RRet(op, line, term, res, peeked, n) ==
    [op |-> op, line |-> line, term |-> term, res |-> res, peeked |-> peeked,
     n |-> n, pos |-> stream.pos, next_char |-> rf.next_char]

\* TextFileBase.read_line
RReadLine ==
    /\ rf.cls = "TextFileBase"
    /\ rret.n < MaxReads
    /\ LET r == ReadLine(rf, stream)
       IN /\ rf' = r.f
          /\ stream' = r.stream
          /\ rret' = RRet("read_line", r.out, r.c, FALSE, FALSE, rret.n + 1)
    /\ UNCHANGED nonReadVars

\* TextFileBase.eof and KYBDFile.eof; the peek of KYBDFile.eof blocks until
\* there is a key
REof ==
    /\ IF rf.cls = "TextFileBase"
       THEN rret' = RRet("eof", << >>, << >>, TextEof(rf), FALSE, rret.n)
       ELSE /\ rf.mode \in {"A", "O"} \/ stream.pos < Len(stream.data)
            /\ LET r == KybdEof(rf, stream)
               IN rret' = RRet("eof", << >>, << >>, r.res, r.peeked, rret.n)
    /\ UNCHANGED <<rf, stream, nonReadVars>>

\* a text file over each stream in each mode, and a keyboard file in each
\* mode over each keyboard buffer
InitRead ==
    /\ \E data \in Contents, mode \in Modes, cls \in {"TextFileBase", "KYBDFile"} :
          LET o == IF cls = "TextFileBase" THEN TextFileBase(data, mode)
                   ELSE KybdFile(data, mode)
          IN rf = o.f /\ stream = o.stream
    /\ rret = [op |-> "init", line |-> << >>, term |-> << >>, res |-> FALSE,
               peeked |-> FALSE, n |-> 0, pos |-> stream.pos, next_char |-> rf.next_char]
    /\ IdleInput
    /\ IdleDev
    /\ IdleText
    /\ IdleKybd
    /\ IdleChars
    /\ IdleSound
    /\ IdleApi

(***************************************************************************)
(* SpecRead: read_line and eof on a text file, eof on a keyboard file.     *)
(***************************************************************************)
NextRead ==
    \/ RReadLine
    \/ REof

SpecRead == InitRead /\ [][NextRead]_vars

(***************************************************************************)
(* INPUT# from a text file: TextFileBase.input_entry.  typechar is "$"     *)
(* (values.STR) for a string target and "!" for a numeric one.             *)
(***************************************************************************)
STR == "$"
TypeChars == {STR, "!"}

\* TextFileBase.whitespace_input
whitespace_input == {<<SPACE>>, <<NUL>>, <<LF>>}
SoftSepAlways(f) == {<<SPACE>>}
\* TextFileBase.soft_sep, InputTextFile.soft_sep
soft_sep(f) == IF f.cls = "InputTextFile" THEN {} ELSE {<<SPACE>>}

\* one turn of the loop of _skip_whitespace; ws is [f, stream, c, done]
SkipTurn(ws, whitespace) ==
    IF ws.f.next_char = << >> \/ ws.f.next_char \notin whitespace
    THEN [ws EXCEPT !.done = TRUE]
    ELSE LET r == ReadOne(ws.f, ws.stream)
             lfcr == r.s = <<LF>> /\ r.f.next_char = <<CR>>
             r2 == IF lfcr THEN ReadOne(r.f, r.stream) ELSE r
         IN [f |-> r2.f, stream |-> r2.stream, c |-> r.s, done |-> FALSE]

\* up to k turns of that loop (the first half of them, then the rest)
RECURSIVE SkipTurns(_, _, _)
SkipTurns(ws, whitespace, k) ==
    IF k = 1 THEN SkipTurn(ws, whitespace)
    ELSE LET h == k \div 2
             first == SkipTurns(ws, whitespace, h)
         IN IF first.done THEN first ELSE SkipTurns(first, whitespace, k - h)

\* TextFileBase._skip_whitespace: each turn reads a character, so the loop
\* ends within one turn more than the stream has characters
SkipWhitespace(f, st, whitespace) ==
    SkipTurns([f |-> f, stream |-> st, c |-> << >>, done |-> FALSE],
              whitespace, Len(st.data) + 2)

EntryStopsInQuotes(f, typechar, quoted, c) ==
    \/ c = << >>
    \/ typechar /= STR /\ c \in soft_sep(f)
    \/ c \in {<<COMMA>>, <<CR>>}
EntryStopsNoSoftSep(f, typechar, quoted, c) ==
    c = << >> \/ (c \in {<<COMMA>>, <<CR>>} /\ ~quoted)
\* the test of the loop of input_entry, negated: the scan is over at c
EntryStops(f, typechar, quoted, c) ==
    \/ c = << >>
    \/ typechar /= STR /\ c \in soft_sep(f)
    \/ c \in {<<COMMA>>, <<CR>>} /\ ~quoted

\* the test of input_entry for a character that is dropped wherever it is
EntryKeepsNul(c) == FALSE
EntryDropped(c) == c = <<NUL>>

\* c = self.read_one() in the loop of input_entry; ls is
\* [f, stream, c, word, blanks, done]
EntryRead(ls) ==
    LET r == ReadOne(ls.f, ls.stream)
    IN [ls EXCEPT !.f = r.f, !.stream = r.stream, !.c = r.s]

\* the end of a turn of the loop: the 255-character cap, or the next
\* character
EntryCapLate(ls) ==
    IF Len(ls.word) + Len(ls.blanks) > MaxEntryLen
    THEN [ls EXCEPT !.done = TRUE]
    ELSE EntryRead(ls)
EntryCap(ls) ==
    IF Len(ls.word) + Len(ls.blanks) >= MaxEntryLen
    THEN [ls EXCEPT !.done = TRUE]
    ELSE EntryRead(ls)

EntryAfterLFKeepsCR(l1) == l1
\* after an LF outside quotes: a CR that follows is dropped with it
EntryAfterLF(l1) == IF l1.c = <<CR>> THEN EntryRead(l1) ELSE l1

EntryWhitespaceKept(ls, typechar) ==
    IF typechar = STR THEN [ls EXCEPT !.word = ls.word \o ls.c] ELSE ls
\* whitespace outside quotes: pending for a string, ignored for a number
EntryWhitespace(ls, typechar) ==
    IF typechar = STR THEN [ls EXCEPT !.blanks = ls.blanks \o ls.c] ELSE ls

\* one turn of the loop of input_entry
EntryTurn(ls, typechar, quoted) ==
    IF EntryStops(ls.f, typechar, quoted, ls.c) THEN [ls EXCEPT !.done = TRUE]
    ELSE IF ls.c = <<QUOTE>> /\ quoted THEN [ls EXCEPT !.done = TRUE]
    ELSE IF ls.c = <<LF>> /\ ~quoted
         THEN EntryAfterLF(EntryRead(ls))
    ELSE IF EntryDropped(ls.c) THEN EntryCap(ls)
    ELSE IF ls.c \in whitespace_input /\ ~quoted
         THEN EntryCap(EntryWhitespace(ls, typechar))
    ELSE EntryCap([ls EXCEPT !.word = ls.word \o ls.blanks \o ls.c,
                             !.blanks = << >>])

\* up to k turns of that loop (the first half of them, then the rest)
RECURSIVE EntryTurns(_, _, _, _)
EntryTurns(ls, typechar, quoted, k) ==
    IF k = 1 THEN EntryTurn(ls, typechar, quoted)
    ELSE LET h == k \div 2
             first == EntryTurns(ls, typechar, quoted, h)
         IN IF first.done THEN first ELSE EntryTurns(first, typechar, quoted, k - h)

\* the test of input_entry for INPUT_PAST_END
EntryPastEnd(c, allow_past_end, last) ==
    c = << >> /\ ~allow_past_end /\ last \notin {<<LF>>, <<NUL>>}

\* the test of input_entry for the separator after the one the scan met;
\* '' is in every string, so an empty next_char passes it
EntryTrailing(next_char) == next_char \in {<< >>, <<COMMA>>, <<CR>>}

EntryQuotedAfterLF(c, typechar, last) == c = <<QUOTE>> /\ typechar = STR
\* quoted of input_entry: LF and NUL before the quote escape it
EntryQuoted(c, typechar, last) ==
    c = <<QUOTE>> /\ typechar = STR /\ last \notin {<<LF>>, <<NUL>>}

\* the start of input_entry: the first character after the whitespace, and
\* the one after an opening quote; sk is what _skip_whitespace left
EntryFirst(sk, typechar) ==
    LET r == ReadOne(sk.f, sk.stream)
        quoted == EntryQuoted(r.s, typechar, sk.c)
    IN IF quoted
       THEN LET r2 == ReadOne(r.f, r.stream)
            IN [f |-> r2.f, stream |-> r2.stream, c |-> r2.s, last |-> sk.c,
                quoted |-> TRUE]
       ELSE [f |-> r.f, stream |-> r.stream, c |-> r.s, last |-> sk.c,
             quoted |-> FALSE]

\* the loop of input_entry from there: each turn but the last reads a
\* character, so it ends within one turn more than the stream has characters
EntryScan(st, typechar) ==
    EntryTurns([f |-> st.f, stream |-> st.stream, c |-> st.c,
                word |-> << >>, blanks |-> << >>, done |-> FALSE],
               typechar, st.quoted, Len(st.stream.data) + 2)

\* the end of input_entry: after a whitespace separator or a closing quote,
\* the spaces are skipped and a comma or CR that follows is the separator
EntryTrail(ls, quoted) ==
    IF (ls.c /= << >> /\ ls.c \in whitespace_input) \/ (quoted /\ ls.c = <<QUOTE>>)
    THEN LET sk == SkipWhitespace(ls.f, ls.stream, {<<SPACE>>})
         IN IF EntryTrailing(sk.f.next_char)
            THEN LET r == ReadOne(sk.f, sk.stream)
                 IN [f |-> r.f, stream |-> r.stream, word |-> ls.word, c |-> r.s,
                     res |-> "ok"]
            ELSE [f |-> sk.f, stream |-> sk.stream, word |-> ls.word, c |-> ls.c,
                  res |-> "ok"]
    ELSE [f |-> ls.f, stream |-> ls.stream, word |-> ls.word, c |-> ls.c,
          res |-> "ok"]

\* input_entry from its first character on
EntryFrom(st, typechar, allow_past_end) ==
    IF EntryPastEnd(st.c, allow_past_end, st.last)
    THEN [f |-> st.f, stream |-> st.stream, word |-> << >>, c |-> << >>,
          res |-> "INPUT_PAST_END"]
    ELSE EntryTrail(EntryScan(st, typechar), st.quoted)

\* TextFileBase.input_entry: [f, stream, word, c, res]
InputEntry(f, st, typechar, allow_past_end) ==
    EntryFrom(EntryFirst(SkipWhitespace(f, st, whitespace_input), typechar),
              typechar, allow_past_end)

\* the last input_entry: its arguments, what it returned or raised, and the
\* stream position and lookahead it started from
IRet(typechar, allow_past_end, r) ==
    [op |-> "input_entry", typechar |-> typechar, allow_past_end |-> allow_past_end,
     word |-> r.word, term |-> r.c, res |-> r.res,
     pos |-> stream.pos, next_char |-> rf.next_char]

\* TextFileBase.input_entry
IInputEntry(typechar, allow_past_end) ==
    LET r == InputEntry(rf, stream, typechar, allow_past_end)
    IN /\ rf' = r.f
       /\ stream' = r.stream
       /\ iret' = IRet(typechar, allow_past_end, r)
       /\ UNCHANGED nonInputVars

\* a text file open for input over each stream
InitInput ==
    /\ \E data \in InputContents :
          LET o == TextFileBase(data, "I")
          IN rf = o.f /\ stream = o.stream
    /\ rret = [op |-> "init", line |-> << >>, term |-> << >>, res |-> FALSE,
               peeked |-> FALSE, n |-> 0, pos |-> stream.pos, next_char |-> rf.next_char]
    /\ IdleInput
    /\ IdleDev
    /\ IdleText
    /\ IdleKybd
    /\ IdleChars
    /\ IdleSound
    /\ IdleApi

(***************************************************************************)
(* SpecInput: input_entry calls on a text file.                            *)
(***************************************************************************)
NextInput ==
    \E typechar \in TypeChars, allow_past_end \in BOOLEAN :
       IInputEntry(typechar, allow_past_end)

SpecInput == InitInput /\ [][NextInput]_vars

(***************************************************************************)
(* Console INPUT: an InputTextFile over the line typed.                    *)
(***************************************************************************)
\* InputTextFile.__init__: a text file in mode I over the line
InputTextFile(line) ==
    LET o == TextFileBase(line, "I")
    IN [f |-> [o.f EXCEPT !.cls = "InputTextFile"], stream |-> o.stream]

ConsoleChars == {LETTER, SPACE, COMMA, CR}
\* two numbers, the first with a space in it, as in "1 2,3"
SpacedNumber == <<LETTER, SPACE, LETTER + 1, COMMA, LETTER>>
\* the lines typed
ConsoleLines == StringsUpTo(ConsoleChars, MaxLineTyped) \cup {SpacedNumber}

\* an InputTextFile and a plain text file over each line
InitConsole ==
    /\ \E line \in ConsoleLines, cls \in {"InputTextFile", "TextFileBase"} :
          LET o == IF cls = "InputTextFile" THEN InputTextFile(line)
                   ELSE TextFileBase(line, "I")
          IN rf = o.f /\ stream = o.stream
    /\ rret = [op |-> "init", line |-> << >>, term |-> << >>, res |-> FALSE,
               peeked |-> FALSE, n |-> 0, pos |-> stream.pos, next_char |-> rf.next_char]
    /\ IdleInput
    /\ IdleDev
    /\ IdleText
    /\ IdleKybd
    /\ IdleChars
    /\ IdleSound
    /\ IdleApi

(***************************************************************************)
(* SpecConsole: input_entry calls on a console line.                       *)
(***************************************************************************)
SpecConsole == InitConsole /\ [][NextInput]_vars


(***************************************************************************)
(* Reads of every kind on one text file: input_chars, read_one, read_line, *)
(* input_entry and eof.                                                    *)
(***************************************************************************)
\* the streams read that way
CharsChars == {LETTER, CR, COMMA, EOFCHAR}
CharsContents == StringsUpTo(CharsChars, MaxCharsLen)
Nums == (-1)..MaxNum

InputCharsStopsAtEnd(f) == f.next_char = << >>
\* the test of input_chars for the soft end of file
InputCharsStops(f) == f.next_char \in {<<EOFCHAR>>, << >>}

\* the loop of TextFileBase.input_chars; ls is [f, stream, s]
RECURSIVE InputCharsLoop(_, _)
InputCharsLoop(ls, num) ==
    IF (num > -1 /\ Len(ls.s) >= num) \/ InputCharsStops(ls.f)
    THEN ls
    ELSE LET r == StreamRead(ls.stream)
         IN InputCharsLoop(
               [f |-> [ls.f EXCEPT !.next_char = r.c, !.char = ls.f.next_char,
                                   !.last = ls.f.char],
                stream |-> r.stream,
                s |-> ls.s \o ls.f.next_char], num)

\* TextFileBase.input_chars
TextInputChars(f, st, num) == InputCharsLoop([f |-> f, stream |-> st, s |-> << >>], num)

\* the last read: its arguments, what it returned or raised, and the file
\* and the stream position it started from
CRet(op, num, typechar, allow_past_end, out, term, res) ==
    [op |-> op, num |-> num, typechar |-> typechar, allow_past_end |-> allow_past_end,
     out |-> out, term |-> term, res |-> res, f |-> rf, pos |-> stream.pos]

\* TextFileBase.input_chars
CInputChars(num) ==
    LET r == TextInputChars(rf, stream, num)
    IN /\ rf' = r.f
       /\ stream' = r.stream
       /\ cret' = CRet("input_chars", num, STR, FALSE, r.s, << >>, "ok")
       /\ UNCHANGED nonCharsVars

\* TextFileBase.read_one
CReadOne ==
    LET r == ReadOne(rf, stream)
    IN /\ rf' = r.f
       /\ stream' = r.stream
       /\ cret' = CRet("read_one", 1, STR, FALSE, r.s, << >>, "ok")
       /\ UNCHANGED nonCharsVars

\* TextFileBase.read_line
CReadLine ==
    LET r == ReadLine(rf, stream)
    IN /\ rf' = r.f
       /\ stream' = r.stream
       /\ cret' = CRet("read_line", 0, STR, FALSE, r.out, r.c, "ok")
       /\ UNCHANGED nonCharsVars

\* TextFileBase.input_entry
CInputEntry(typechar, allow_past_end) ==
    LET r == InputEntry(rf, stream, typechar, allow_past_end)
    IN /\ rf' = r.f
       /\ stream' = r.stream
       /\ cret' = CRet("input_entry", 0, typechar, allow_past_end, r.word, r.c, r.res)
       /\ UNCHANGED nonCharsVars

\* TextFileBase.eof
CEof ==
    /\ cret' = CRet("eof", 0, STR, FALSE, << >>, << >>,
                    IF TextEof(rf) THEN "eof" ELSE "more")
    /\ UNCHANGED <<rf, stream, nonCharsVars>>

\* a text file in each mode over each stream
InitChars ==
    /\ \E data \in CharsContents, mode \in Modes :
          LET o == TextFileBase(data, mode)
          IN rf = o.f /\ stream = o.stream
    /\ rret = [op |-> "init", line |-> << >>, term |-> << >>, res |-> FALSE,
               peeked |-> FALSE, n |-> 0, pos |-> stream.pos, next_char |-> rf.next_char]
    /\ IdleInput
    /\ IdleDev
    /\ IdleText
    /\ IdleKybd
    /\ IdleChars
    /\ IdleSound
    /\ IdleApi

(***************************************************************************)
(* SpecChars: reads of every kind on a text file.                          *)
(***************************************************************************)
NextChars ==
    \/ \E num \in Nums : CInputChars(num)
    \/ CReadOne
    \/ CReadLine
    \/ \E typechar \in TypeChars, allow_past_end \in BOOLEAN :
          CInputEntry(typechar, allow_past_end)
    \/ CEof

SpecChars == InitChars /\ [][NextChars]_vars


(***************************************************************************)
(* The keyboard file: KYBDFile.input_chars, KYBDFile.read_one and the      *)
(* realtime INPUT# tokenizer.  A key is the byte string the keyboard       *)
(* delivers for it: one byte, or an eascii code of two bytes that starts   *)
(* with NUL.  keyboard is [keys: the keys typed, pos: how many were read]. *)
(***************************************************************************)
\* eascii codes: three that _input_replace has, one that it has not
EA_HOME == <<NUL, 71>>
EA_PAGEUP == <<NUL, 73>>
EA_F1 == <<NUL, 59>>
EA_CTRL_F1 == <<NUL, 94>>

\* KYBDFile._input_replace: its keys, and .get(c, c)
InputReplaced(c) == c \in {EA_HOME, EA_PAGEUP, EA_F1}
input_replace(c) ==
    CASE c = EA_HOME -> <<255, 11>>
      [] c = EA_PAGEUP -> <<254>>
      [] c = EA_F1 -> << >>
      [] OTHER -> c

\* keyboard.read_bytes_kybd_file(num): up to num of the keys typed
ReadBytesKybdFile(kb, num) ==
    LET left == Len(kb.keys) - kb.pos
        k == IF num < left THEN num ELSE left
    IN [codes |-> SubSeq(kb.keys, kb.pos + 1, kb.pos + k),
        kb |-> [kb EXCEPT !.pos = kb.pos + k]]

InputCharsKeepsCode(c) ==
    IF InputReplaced(c) THEN input_replace(c) ELSE IF Len(c) = 1 THEN c ELSE << >>
\* what KYBDFile.input_chars makes of one key
InputCharsOf(c) ==
    IF InputReplaced(c) THEN <<NUL>> ELSE IF Len(c) = 1 THEN c ELSE << >>

\* b''.join
RECURSIVE Join(_)
Join(ss) == IF ss = << >> THEN << >> ELSE Head(ss) \o Join(Tail(ss))

\* KYBDFile.input_chars(num), chars read so far; blocked when the keys run
\* out before num characters are there
RECURSIVE KybdInputCharsLoop(_, _, _)
KybdInputCharsLoop(kb, num, chars) ==
    IF Len(chars) >= num THEN [s |-> chars, kb |-> kb, blocked |-> FALSE]
    ELSE IF kb.pos >= Len(kb.keys) THEN [s |-> chars, kb |-> kb, blocked |-> TRUE]
    ELSE CHOOSE res \in
            {KybdInputCharsLoop(r.kb, num,
                 chars \o Join([i \in 1..Len(r.codes) |-> InputCharsOf(r.codes[i])])) :
               r \in {ReadBytesKybdFile(kb, num - Len(chars))}} : TRUE

KybdInputChars(kb, num) == KybdInputCharsLoop(kb, num, << >>)

KybdReadOneNoWait(kb) ==
    LET r == ReadBytesKybdFile(kb, 1)
    IN [s |-> Join([i \in 1..Len(r.codes) |-> input_replace(r.codes[i])]),
        kb |-> r.kb, blocked |-> FALSE]
\* KYBDFile.read_one; blocked when the keys run out before a character is there
RECURSIVE KybdReadOne(_)
KybdReadOne(kb) ==
    IF kb.pos >= Len(kb.keys) THEN [s |-> << >>, kb |-> kb, blocked |-> TRUE]
    ELSE CHOOSE res \in
            {IF Len(Join([i \in 1..Len(r.codes) |-> input_replace(r.codes[i])])) < 1
             THEN KybdReadOne(r.kb)
             ELSE [s |-> Join([i \in 1..Len(r.codes) |-> input_replace(r.codes[i])]),
                   kb |-> r.kb, blocked |-> FALSE] :
               r \in {ReadBytesKybdFile(kb, 1)}} : TRUE

\* a character read in the loop of input_entry_realtime; ls is [kb, c, word,
\* blanks, parsing_trail, input_last, done, blocked]
RtRead(ls) ==
    CHOOSE l \in {[ls EXCEPT !.kb = r.kb, !.c = r.s, !.blocked = r.blocked,
                             !.done = r.blocked] : r \in {KybdReadOne(ls.kb)}} : TRUE

\* the test of input_entry_realtime for keeping the character that ended
\* the trail
RtPushback(c) == c \notin {<<COMMA>>, <<CR>>}

\* the end of a turn of the loop: the cap, the next character, the trail
RtNext(l1, typechar) ==
    IF Len(l1.word) + Len(l1.blanks) >= MaxEntryLen THEN [l1 EXCEPT !.done = TRUE]
    ELSE CHOOSE l \in
            {IF l2.blocked THEN l2
             ELSE IF l1.parsing_trail /\ l2.c \notin whitespace_input
             THEN [l2 EXCEPT !.done = TRUE,
                             !.input_last = IF RtPushback(l2.c) THEN l2.c ELSE @]
             ELSE [l2 EXCEPT !.parsing_trail =
                                l1.parsing_trail \/ (typechar /= STR /\ l2.c = <<SPACE>>)] :
               l2 \in {RtRead(l1)}} : TRUE

\* one turn of the loop of input_entry_realtime
RtTurn(ls, typechar, quoted) ==
    IF ls.c = << >> \/ (ls.c \in {<<COMMA>>, <<CR>>} /\ ~quoted)
    THEN [ls EXCEPT !.done = TRUE]
    ELSE IF ls.c = <<QUOTE>> /\ quoted
         THEN RtNext([ls EXCEPT !.parsing_trail = TRUE], typechar)
    ELSE IF ls.c = <<LF>> /\ ~quoted
         THEN CHOOSE l \in {IF ~l1.blocked /\ l1.c = <<CR>> THEN RtRead(l1) ELSE l1 :
                               l1 \in {RtRead(ls)}} : TRUE
    ELSE IF ls.c = <<NUL>> THEN RtNext(ls, typechar)
    ELSE IF ls.c \in whitespace_input /\ ~quoted
         THEN RtNext(IF typechar = STR
                     THEN [ls EXCEPT !.blanks = ls.blanks \o ls.c]
                     ELSE ls, typechar)
    ELSE RtNext([ls EXCEPT !.word = ls.word \o ls.blanks \o ls.c,
                           !.blanks = << >>], typechar)

\* up to k turns of that loop (the first half of them, then the rest)
RECURSIVE RtTurns(_, _, _, _)
RtTurns(ls, typechar, quoted, k) ==
    IF k = 1 THEN RtTurn(ls, typechar, quoted)
    ELSE CHOOSE l \in
            {IF first.done THEN first
             ELSE RtTurns(first, typechar, quoted, k - (k \div 2)) :
               first \in {RtTurns(ls, typechar, quoted, k \div 2)}} : TRUE

RtTakeLastKeeps(input_last) == [c |-> input_last, input_last |-> input_last]
\* c, self._input_last = self._input_last, b''
RtTakeLast(input_last) == [c |-> input_last, input_last |-> << >>]

\* the first character of input_entry_realtime, from the slot or from the
\* keyboard
RtStart(f, kb) ==
    IF f.input_last /= << >>
    THEN [c |-> RtTakeLast(f.input_last).c,
          input_last |-> RtTakeLast(f.input_last).input_last,
          kb |-> kb, blocked |-> FALSE]
    ELSE CHOOSE t \in {[c |-> r.s, input_last |-> f.input_last, kb |-> r.kb,
                        blocked |-> r.blocked] : r \in {KybdReadOne(kb)}} : TRUE

\* the start of input_entry_realtime: the first character and the one after
\* an opening quote
RtFirst(f, kb, typechar) ==
    CHOOSE st \in
       {IF t.c = <<QUOTE>> /\ typechar = STR /\ ~t.blocked
        THEN CHOOSE q \in {[c |-> r2.s, input_last |-> t.input_last, kb |-> r2.kb,
                             blocked |-> r2.blocked, quoted |-> TRUE] :
                              r2 \in {KybdReadOne(t.kb)}} : TRUE
        ELSE [c |-> t.c, input_last |-> t.input_last, kb |-> t.kb,
              blocked |-> t.blocked, quoted |-> FALSE] :
          t \in {RtStart(f, kb)}} : TRUE

\* input_entry_realtime from its first character on
RtFrom(st, typechar, allow_past_end) ==
    IF st.blocked
    THEN [word |-> << >>, c |-> << >>, input_last |-> st.input_last, kb |-> st.kb,
          res |-> "ok", blocked |-> TRUE]
    ELSE IF st.c = << >> /\ ~allow_past_end
    THEN [word |-> << >>, c |-> << >>, input_last |-> st.input_last, kb |-> st.kb,
          res |-> "INPUT_PAST_END", blocked |-> FALSE]
    ELSE CHOOSE r \in
            {[word |-> ls.word, c |-> ls.c, input_last |-> ls.input_last, kb |-> ls.kb,
              res |-> "ok", blocked |-> ls.blocked] :
               ls \in {RtTurns([kb |-> st.kb, c |-> st.c, word |-> << >>,
                                blanks |-> << >>, parsing_trail |-> FALSE,
                                input_last |-> st.input_last, done |-> FALSE,
                                blocked |-> FALSE],
                               typechar, st.quoted, Len(st.kb.keys) + 2)}} : TRUE

\* KYBDFile.input_entry: input_entry_realtime
input_entry_realtime(f, kb, typechar, allow_past_end) ==
    CHOOSE r \in {RtFrom(st, typechar, allow_past_end) :
                     st \in {RtFirst(f, kb, typechar)}} : TRUE

\* the last operation on the keyboard file, with the slot and the place in
\* the keys before it
KRet(op, typechar, allow_past_end, num, word, term, res) ==
    [op |-> op, typechar |-> typechar, allow_past_end |-> allow_past_end,
     num |-> num, word |-> word, term |-> term, res |-> res,
     input_last |-> kf.input_last, pos |-> keyboard.pos]

\* KYBDFile.input_entry, when the keys typed let it return
KInputEntry(typechar, allow_past_end) ==
    LET r == input_entry_realtime(kf, keyboard, typechar, allow_past_end)
    IN /\ ~r.blocked
       /\ kf' = [kf EXCEPT !.input_last = r.input_last]
       /\ keyboard' = r.kb
       /\ kret' = KRet("input_entry", typechar, allow_past_end, 0, r.word, r.c, r.res)
       /\ UNCHANGED nonKybdVars

\* KYBDFile.input_chars(num), when the keys typed let it return
KInputChars(num) ==
    LET r == KybdInputChars(keyboard, num)
    IN /\ ~r.blocked
       /\ keyboard' = r.kb
       /\ kret' = KRet("input_chars", STR, FALSE, num, r.s, << >>, "ok")
       /\ UNCHANGED <<kf, nonKybdVars>>

\* KYBDFile.read_one, when the keys typed let it return
KReadOne ==
    LET r == KybdReadOne(keyboard)
    IN /\ ~r.blocked
       /\ keyboard' = r.kb
       /\ kret' = KRet("read_one", STR, FALSE, 1, r.s, << >>, "ok")
       /\ UNCHANGED <<kf, nonKybdVars>>

\* KYBDFile.__init__ over each sequence of keys typed
InitKybd ==
    /\ kf = [input_last |-> << >>]
    /\ \E keys \in KeyBuffers : keyboard = [keys |-> keys, pos |-> 0]
    /\ kret = [op |-> "init", typechar |-> STR, allow_past_end |-> FALSE,
               num |-> 0, word |-> << >>, term |-> << >>, res |-> "ok",
               input_last |-> << >>, pos |-> 0]
    /\ IdleDev
    /\ IdleText
    /\ IdleRead
    /\ IdleInput
    /\ IdleChars
    /\ IdleSound
    /\ IdleApi

(***************************************************************************)
(* SpecKybd: INPUT#, INPUT$ and single characters from the keyboard file.  *)
(***************************************************************************)
NextKybd ==
    \/ \E typechar \in TypeChars, allow_past_end \in BOOLEAN :
          KInputEntry(typechar, allow_past_end)
    \/ \E num \in 1..MaxNum : KInputChars(num)
    \/ KReadOne

SpecKybd == InitKybd /\ [][NextKybd]_vars

\* KYBDFile.__init__ over the long sequences of keys typed
InitLongKeys ==
    /\ kf = [input_last |-> << >>]
    /\ \E keys \in LongKeys : keyboard = [keys |-> keys, pos |-> 0]
    /\ kret = [op |-> "init", typechar |-> STR, allow_past_end |-> FALSE,
               num |-> 0, word |-> << >>, term |-> << >>, res |-> "ok",
               input_last |-> << >>, pos |-> 0]
    /\ IdleDev
    /\ IdleText
    /\ IdleRead
    /\ IdleInput
    /\ IdleChars
    /\ IdleSound
    /\ IdleApi

(***************************************************************************)
(* SpecLongKeys: the same operations after long sequences of keys.         *)
(***************************************************************************)
SpecLongKeys == InitLongKeys /\ [][NextKybd]_vars

(***************************************************************************)
(* The two tokenizers side by side: a text file over some bytes and a      *)
(* keyboard file whose keys typed are those bytes, one key each.           *)
(***************************************************************************)
BothChars == {LETTER, SPACE, QUOTE, COMMA, CR}
\* the inputs: they end in CR
\* a quoted field, a space and a comma, as in "A" , B
QuotedThenSpace == <<QUOTE, LETTER, QUOTE, SPACE, COMMA, LETTER, CR>>
BothInputs ==
    {body \o <<CR>> : body \in StringsUpTo(BothChars, MaxBothLen)}
       \cup {QuotedThenSpace}

\* the keys that type the bytes of data
KeysOf(data) == [i \in 1..Len(data) |-> <<data[i]>>]

\* input_entry on the text file and on the keyboard file, with the same
\* arguments, when the keys typed let the keyboard file return
BInputEntry(typechar, allow_past_end) ==
    LET r == InputEntry(rf, stream, typechar, allow_past_end)
        k == input_entry_realtime(kf, keyboard, typechar, allow_past_end)
    IN /\ ~k.blocked
       /\ rf' = r.f
       /\ stream' = r.stream
       /\ iret' = IRet(typechar, allow_past_end, r)
       /\ kf' = [kf EXCEPT !.input_last = k.input_last]
       /\ keyboard' = k.kb
       /\ kret' = KRet("input_entry", typechar, allow_past_end, 0, k.word, k.c, k.res)
       /\ UNCHANGED <<devVars, textVars, rret, charsVars, soundVars, apiVars>>

\* TextFileBase.__init__ over each input and KYBDFile.__init__ over its keys
InitBoth ==
    /\ \E data \in BothInputs :
          LET o == TextFileBase(data, "I")
          IN /\ rf = o.f /\ stream = o.stream
             /\ keyboard = [keys |-> KeysOf(data), pos |-> 0]
    /\ kf = [input_last |-> << >>]
    /\ rret = [op |-> "init", line |-> << >>, term |-> << >>, res |-> FALSE,
               peeked |-> FALSE, n |-> 0, pos |-> stream.pos, next_char |-> rf.next_char]
    /\ kret = [op |-> "init", typechar |-> STR, allow_past_end |-> FALSE,
               num |-> 0, word |-> << >>, term |-> << >>, res |-> "ok",
               input_last |-> << >>, pos |-> 0]
    /\ IdleInput
    /\ IdleDev
    /\ IdleText
    /\ IdleChars
    /\ IdleSound
    /\ IdleApi

(***************************************************************************)
(* SpecBoth: input_entry calls on both files in step.                      *)
(***************************************************************************)
NextBoth ==
    \E typechar \in TypeChars, allow_past_end \in BOOLEAN :
       BInputEntry(typechar, allow_past_end)

SpecBoth == InitBoth /\ [][NextBoth]_vars


(***************************************************************************)
(* Sound (pcbasic/basic/sound.py): the timed queues of the voices and the  *)
(* statements SOUND, BEEP and PLAY.  Time is counted in sixteenths of a    *)
(* second and kept relative to now: an item of a queue is [left: the time  *)
(* until its expiry, loop: whether its expiry is None, counts: "tone",     *)
(* "gap" or "balloon" for count_for_size True, False or None].  The audio  *)
(* events sent to the interface are not kept.                              *)
(***************************************************************************)
\* BACKGROUND_BUFFER_LENGTH
BACKGROUND_BUFFER_LENGTH == 32
\* a note of PLAY at the default length, tempo and fill (a quarter note of
\* half a second, 7/8 of it sounding): its tone and its gap
PlayTone == 7
PlayGap == 1
\* the tone of BEEP, a quarter of a second
BeepTone == 4

ToneVoices == 0..2
\* the durations SOUND is given, and the voices
SoundDurs == {MaxSoundDur}
\* SOUND: with duration 0, with a duration under LOOP_THRESHOLD, with a
\* longer one
SoundKinds == {"stop", "loop", "timed"}
\* the commands of a PLAY string: a note, MF and MB
PlayCommands == {"N", "MF", "MB"}
\* the strings PLAY is given: one, or three of which the last two are short
\* MB and then the notes that fill a voice past the background buffer (each
\* note is a tone and a gap)
LongPlay ==
    <<"MB">> \o [i \in 1..((BACKGROUND_BUFFER_LENGTH + 2) \div 2) |-> "N"]
PlayArgs ==
    {<<m>> : m \in StringsUpTo(PlayCommands, MaxMml)}
       \cup {<<m, n1, n2>> : m \in StringsUpTo({"N"}, MaxMml),
                             n1 \in StringsUpTo({"N"}, 1), n2 \in StringsUpTo({"N"}, 1)}

\* TimedQueue._check_expired: a looping item at the head stops it (TypeError)
RECURSIVE CheckExpired(_)
CheckExpired(q) ==
    IF q.deque = << >> \/ Head(q.deque).loop \/ Head(q.deque).left > 0 THEN q
    ELSE CHOOSE r \in {CheckExpired(x) :
                         x \in {[deque |-> Tail(q.deque),
                                 balloon_popped |-> Head(q.deque).counts = "balloon"]}} :
            TRUE

\* the part of TimedQueue.put that drops a looping item at the end
PutDropsLoop(c) ==
    IF c.deque /= << >> /\ c.deque[Len(c.deque)].loop
    THEN SubSeq(c.deque, 1, Len(c.deque) - 1)
    ELSE c.deque

\* TimedQueue.put(item, duration, count_for_size); loop stands for the
\* duration None
Put(q, duration, loop, counts) ==
    CHOOSE r \in
       {LET d == PutDropsLoop(c)
            last == IF d /= << >> THEN d[Len(d)].left ELSE 0
            expiry == (IF last > 0 THEN last ELSE 0) + duration
        IN [c EXCEPT !.deque = Append(d, [left |-> IF loop THEN 0 ELSE expiry,
                                             loop |-> loop, counts |-> counts])] :
          c \in {CheckExpired(q)}} : TRUE

\* TimedQueue.qsize: the queue after it, and the size
QSize(q) ==
    CHOOSE r \in {[q |-> c, n |-> Len(c.deque)] : c \in {CheckExpired(q)}} : TRUE

\* TimedQueue.expiry: the queue after it, and the expiry; now for a looping
\* sound and for an empty queue
Expiry(q) ==
    CHOOSE r \in
       {[q |-> c,
         t |-> IF c.deque = << >> \/ c.deque[Len(c.deque)].loop THEN 0
               ELSE c.deque[Len(c.deque)].left] : c \in {CheckExpired(q)}} : TRUE

\* Sound.emit_synch on the queues vq, while no time passes: the queues after
EmitSynch(vq) ==
    CHOOSE r \in
       {LET max_time == CHOOSE t \in {e[v].t : v \in ToneVoices} :
                            \A v \in ToneVoices : e[v].t <= t
        IN [v \in 0..3 |->
              IF v \in ToneVoices
              THEN Put(e[v].q, max_time - Expiry(e[v].q).t, FALSE, "balloon")
              ELSE vq[v]] :
          e \in {[v \in ToneVoices |-> Expiry(vq[v])]}} : TRUE

\* Sound.emit_tone with fill*duration = tone and (1-fill)*duration = gap; st
\* is [vq: the queues, synch: _synch, synchs: the emit_synch calls made,
\* after: when each voice ends after the last of them, as expiry() tells it,
\* mixed: whether a looping tone followed unexpired items before it]
EmitTone(st, tone, gap, loop, voice) ==
    CHOOSE r \in
       {LET q1 == Put(st1.vq[voice], tone, loop, "tone")
            q2 == IF gap /= 0 /\ ~loop THEN Put(q1, gap, FALSE, "gap") ELSE q1
        IN [st1 EXCEPT !.vq[voice] = q2] :
          st1 \in {IF st.synch
                   THEN CHOOSE t \in {[vq |-> vs, synch |-> FALSE,
                                       synchs |-> st.synchs + 1, after |-> [v \in ToneVoices |-> Expiry(vs[v]).t],
                                       mixed |->
                                          \E v \in ToneVoices :
                                             LET c == CheckExpired(st.vq[v])
                                             IN /\ Len(c.deque) > 1
                                                /\ c.deque[Len(c.deque)].loop] :
                                         vs \in {EmitSynch(st.vq)}} : TRUE
                   ELSE st}} : TRUE

\* the state emit_tone works on, at the start of a statement
SoundState ==
    [vq |-> voice_queue, synch |-> synch, synchs |-> 0, after |-> [v \in 0..2 |-> 0],
     mixed |-> FALSE]

SRet(op, voice, st, res) ==
    [op |-> op, voice |-> voice, synchs |-> st.synchs,
     after |-> st.after, mixed |-> st.mixed,
     synch |-> st.synch, res |-> res]

\* the items in the queues of the tone voices
Queued == Len(voice_queue[0].deque) + Len(voice_queue[1].deque)
             + Len(voice_queue[2].deque)

\* Sound.wait and Sound._wait_background: the length _wait is given
WaitLength(fg) == IF fg THEN 0 ELSE BACKGROUND_BUFFER_LENGTH + 1

\* Sound.sound_: SOUND with a frequency, a duration and a voice (SOUND ON and
\* SOUND OFF are left out: sound_on keeps the value it starts with)
SoundStmt(kind, dur, voice) ==
    /\ ~waiting.on
    /\ Queued <= MaxQueued
    /\ IF kind = "stop"
       \* stop_all_sound: every queue is cleared
       THEN /\ voice_queue' = [v \in 0..3 |-> [voice_queue[v] EXCEPT !.deque = << >>]]
            /\ sret' = SRet("sound", voice, SoundState, "ok")
            /\ UNCHANGED <<synch, waiting>>
       ELSE LET st == EmitTone(SoundState, dur, 0, kind = "loop", voice)
            IN /\ voice_queue' = st.vq
               /\ synch' = st.synch
               /\ sret' = SRet("sound", voice, st, "ok")
               /\ waiting' = [on |-> TRUE,
                              length |-> IF kind = "loop" THEN WaitLength(FALSE)
                                         ELSE WaitLength(foreground)]
    /\ UNCHANGED <<foreground, sound_on, nonSoundVars>>

\* Sound.beep
Beep ==
    /\ ~waiting.on
    /\ Queued <= MaxQueued
    /\ LET st == EmitTone(SoundState, BeepTone, 0, FALSE, 0)
       IN /\ voice_queue' = st.vq
          /\ synch' = st.synch
          /\ sret' = SRet("beep", 0, st, "ok")
    /\ waiting' = [on |-> TRUE, length |-> WaitLength(FALSE)]
    /\ UNCHANGED <<foreground, sound_on, nonSoundVars>>

\* one turn of the loops of play_: ps is [st, foreground, mml: what is left
\* of each string, voices: the list the for loop runs over, i: its place]
PlayTurn(ps) ==
    IF ps.voices = << >> THEN ps
    ELSE IF ps.i > Len(ps.voices) THEN [ps EXCEPT !.i = 1]
    ELSE LET voice == ps.voices[ps.i]
             c == IF ps.mml[voice] = << >> THEN "" ELSE Head(ps.mml[voice])
             read == [ps EXCEPT !.i = ps.i + 1,
                                !.mml[voice] = IF c = "" THEN << >> ELSE Tail(@)]
         IN IF c = ""
            THEN [read EXCEPT !.voices = SubSeq(ps.voices, 1, ps.i - 1)
                                            \o SubSeq(ps.voices, ps.i + 1,
                                                      Len(ps.voices))]
            ELSE IF c = "MF" THEN [read EXCEPT !.foreground = TRUE]
            ELSE IF c = "MB" THEN [read EXCEPT !.foreground = FALSE]
            ELSE [read EXCEPT !.st = EmitTone(ps.st, PlayTone, PlayGap, FALSE, voice)]

\* k turns (the first half of them, then the rest)
RECURSIVE PlayTurns(_, _)
PlayTurns(ps, k) ==
    IF k = 1 THEN CHOOSE r \in {PlayTurn(x) : x \in {ps}} : TRUE
    ELSE CHOOSE r \in {PlayTurns(first, k - (k \div 2)) :
                          first \in {PlayTurns(ps, k \div 2)}} : TRUE

\* PlayParser.play_ on the strings args
Play(args) ==
    /\ ~waiting.on
    /\ Queued <= MaxQueued
    /\ LET mml == [v \in ToneVoices |-> IF v < Len(args) THEN args[v + 1] ELSE << >>]
       \* mml_list holds three strings, given or not
       IN IF \A v \in ToneVoices : mml[v] = << >>
          THEN /\ sret' = SRet("play", 0, SoundState, "MISSING_OPERAND")
               /\ UNCHANGED <<voice_queue, foreground, synch, waiting>>
          ELSE IF ~sound_on /\ Cardinality(DOMAIN mml) > 1
          THEN /\ sret' = SRet("play", 0, SoundState, "STX")
               /\ UNCHANGED <<voice_queue, foreground, synch, waiting>>
          ELSE LET ps == PlayTurns([st |-> [SoundState EXCEPT !.synch = TRUE],
                                    foreground |-> foreground, mml |-> mml,
                                    voices |-> <<0, 1, 2>>, i |-> 1],
                                   \* the turns the loops take at most: one for
                                   \* each command, one for the end of each
                                   \* string, one at the end of each round
                                   2 * (Len(mml[0]) + Len(mml[1]) + Len(mml[2]) + 3)
                                      + 1)
               IN /\ voice_queue' = ps.st.vq
                  /\ foreground' = ps.foreground
                  /\ synch' = FALSE
                  /\ sret' = SRet("play", 0, ps.st, "ok")
                  /\ waiting' = [on |-> TRUE, length |-> WaitLength(ps.foreground)]
    /\ UNCHANGED <<sound_on, nonSoundVars>>

\* the test of the loop of Sound._wait: the queues after the qsize calls it
\* makes, and whether the wait goes on
WaitTest(vq, wait_length) ==
    LET s0 == QSize(vq[0])
        s1 == QSize(vq[1])
        s2 == QSize(vq[2])
    IN IF s0.n > wait_length
       THEN [vq |-> [vq EXCEPT ![0] = s0.q], on |-> TRUE]
       ELSE IF s1.n > wait_length
       THEN [vq |-> [vq EXCEPT ![0] = s0.q, ![1] = s1.q], on |-> TRUE]
       ELSE [vq |-> [vq EXCEPT ![0] = s0.q, ![1] = s1.q, ![2] = s2.q],
             on |-> s2.n > wait_length]

\* one turn of the loop of Sound._wait: it returns, or it waits on
Wait ==
    /\ waiting.on
    /\ LET r == WaitTest(voice_queue, waiting.length)
       IN /\ voice_queue' = r.vq
          /\ waiting' = [waiting EXCEPT !.on = r.on]
    /\ UNCHANGED <<foreground, synch, sound_on, sret, nonSoundVars>>

\* a sixteenth of a second passes
Tick ==
    /\ \E v \in 0..3 : \E i \in 1..Len(voice_queue[v].deque) :
          ~voice_queue[v].deque[i].loop /\ voice_queue[v].deque[i].left > 0
    /\ voice_queue' =
          [v \in 0..3 |->
             [voice_queue[v] EXCEPT !.deque =
                [i \in 1..Len(@) |->
                   IF @[i].loop \/ @[i].left = 0 THEN @[i]
                   ELSE [@[i] EXCEPT !.left = @ - 1]]]]
    /\ UNCHANGED <<foreground, synch, sound_on, waiting, sret, nonSoundVars>>

\* Sound.__init__ and PlayParser.reset; sound_on is true for the syntax tandy
InitSound ==
    /\ voice_queue = [v \in 0..3 |-> [deque |-> << >>, balloon_popped |-> FALSE]]
    /\ foreground = TRUE
    /\ synch = FALSE
    /\ sound_on \in BOOLEAN
    /\ waiting = [on |-> FALSE, length |-> 0]
    /\ sret = [op |-> "init", voice |-> 0, synchs |-> 0, after |-> [v \in 0..2 |-> 0],
               mixed |-> FALSE,
               synch |-> FALSE, res |-> "ok"]
    /\ IdleDev
    /\ IdleText
    /\ IdleRead
    /\ IdleInput
    /\ IdleKybd
    /\ IdleChars
    /\ IdleApi

(***************************************************************************)
(* SpecSound: SOUND, BEEP and PLAY statements, the wait that ends them,    *)
(* and the passing of time.  SpecSoundFair: time passes, and the loop of   *)
(* _wait takes its turns.                                                  *)
(***************************************************************************)
NextSound ==
    \/ \E kind \in SoundKinds, dur \in SoundDurs, voice \in ToneVoices :
          SoundStmt(kind, dur, voice)
    \/ Beep
    \/ \E args \in PlayArgs : Play(args)
    \/ Wait
    \/ Tick

SpecSound == InitSound /\ [][NextSound]_vars

SpecSoundFair == SpecSound /\ WF_vars(Tick) /\ WF_vars(Wait)

(***************************************************************************)
(* SpecLongPlay: PLAY in the background with more notes than the buffer of *)
(* a voice holds.                                                          *)
(***************************************************************************)
NextLongPlay ==
    \/ \E args \in {<<LongPlay>>} : Play(args)
    \/ Wait
    \/ Tick

SpecLongPlay == InitSound /\ [][NextLongPlay]_vars /\ WF_vars(Tick) /\ WF_vars(Wait)

(***************************************************************************)
(* Session (pcbasic/basic/api.py): the public API of a BASIC session.      *)
(* session is [impl: _impl, "None" or "Implementation"; interface;         *)
(* entered: inside the context guard; attached: the interface the          *)
(* implementation was given last; created: the implementations made;       *)
(* impl_closes: the calls of _impl.close; steps: the calls made].  What    *)
(* the implementation does when called is an input: it returns, or it      *)
(* raises Exit, Break or another error.                                    *)
(***************************************************************************)
Interfaces == {"None", "a", "b"}
Signals == {"None", "Exit", "Break", "Error"}
\* what happens in start: the implementation is made and attached, its
\* construction raises, or its attach_interface raises
Makes == {"ok", "ctor_raises", "attach_raises"}
\* the calls that begin with start and then use _impl ("start" uses nothing)
ApiOps == {"start", "bind_file", "execute", "evaluate", "set_variable",
           "get_variable", "interact"}

SessionStartAlways(s, made) ==
    [s |-> [s EXCEPT !.impl = "Implementation", !.created = @ + 1,
                     !.attached = s.interface],
     raised |-> "None"]
\* Session.start: the session after it, and what it raised
SessionStart(s, made) ==
    IF s.impl = "None"
    THEN IF made = "ctor_raises" THEN [s |-> s, raised |-> "Error"]
         ELSE LET s1 == [s EXCEPT !.impl = "Implementation", !.created = @ + 1]
              IN IF made = "attach_raises" THEN [s |-> s1, raised |-> "Error"]
                 ELSE [s |-> [s1 EXCEPT !.attached = s.interface],
                       raised |-> "None"]
    ELSE [s |-> s, raised |-> "None"]

\* Session.close: the session after it, and what it raised
SessionClose(s, signal) ==
    IF s.impl /= "None"
    THEN [s |-> [s EXCEPT !.impl_closes = @ + 1], raised |-> signal]
    ELSE [s |-> s, raised |-> "None"]

\* Session.start, bind_file, execute, evaluate, set_variable, get_variable
\* and interact: start, and then the call on _impl, which raises signal
ApiCall(op, made, signal) ==
    /\ session.steps < MaxApiSteps
    /\ LET r == SessionStart(session, made)
           body == r.raised = "None" /\ op /= "start"
       IN /\ session' = [r.s EXCEPT !.steps = @ + 1]
          /\ aret' = [op |-> op, impl |-> session.impl,
                      on |-> IF body THEN r.s.impl ELSE "-",
                      ex_type |-> "None",
                      raised |-> IF r.raised /= "None" THEN r.raised
                                 ELSE IF ~body THEN "None"
                                 ELSE IF r.s.impl = "None" THEN "AttributeError"
                                 ELSE signal,
                      suppressed |-> FALSE, closes |-> 0]
    /\ UNCHANGED nonApiVars

\* Session.attach(interface)
ApiAttach(interface, made, signal) ==
    /\ session.steps < MaxApiSteps
    /\ LET r == SessionStart(session, made)
           body == r.raised = "None"
           attaches == body /\ r.s.impl /= "None" /\ signal = "None"
       IN /\ session' = [r.s EXCEPT !.steps = @ + 1,
                                    !.interface = IF body THEN interface ELSE @,
                                    !.attached = IF attaches THEN interface ELSE @]
          /\ aret' = [op |-> "attach", impl |-> session.impl,
                      on |-> IF body THEN r.s.impl ELSE "-",
                      ex_type |-> "None",
                      raised |-> IF ~body THEN r.raised
                                 ELSE IF r.s.impl = "None" THEN "AttributeError"
                                 ELSE signal,
                      suppressed |-> FALSE, closes |-> 0]
    /\ UNCHANGED nonApiVars

\* Session.close()
ApiClose(signal) ==
    /\ session.steps < MaxApiSteps
    /\ LET r == SessionClose(session, signal)
       IN /\ session' = [r.s EXCEPT !.steps = @ + 1]
          /\ aret' = [op |-> "close", impl |-> session.impl, on |-> "-",
                      ex_type |-> "None", raised |-> r.raised,
                      suppressed |-> FALSE, closes |-> 1]
    /\ UNCHANGED nonApiVars

\* Session.__enter__
ApiEnter ==
    /\ session.steps < MaxApiSteps
    /\ ~session.entered
    /\ session' = [session EXCEPT !.steps = @ + 1, !.entered = TRUE]
    /\ aret' = [op |-> "enter", impl |-> session.impl, on |-> "-",
                ex_type |-> "None", raised |-> "None", suppressed |-> FALSE,
                closes |-> 0]
    /\ UNCHANGED nonApiVars

\* Session.__exit__(ex_type, ex_val, tb): the block of the context guard is
\* left, with the exception ex_type or with none
ApiExit(ex_type, signal) ==
    /\ session.steps < MaxApiSteps
    /\ session.entered
    /\ LET r == SessionClose(session, signal)
       IN /\ session' = [r.s EXCEPT !.steps = @ + 1, !.entered = FALSE]
          /\ aret' = [op |-> "exit", impl |-> session.impl, on |-> "-",
                      ex_type |-> ex_type, raised |-> r.raised,
                      suppressed |-> r.raised = "None" /\ ex_type \in {"Exit", "Break"},
                      closes |-> 1]
    /\ UNCHANGED nonApiVars

\* Session.__init__(interface)
InitApi ==
    /\ \E interface \in Interfaces :
          session = [impl |-> "None", interface |-> interface, entered |-> FALSE,
                     attached |-> "None", created |-> 0, impl_closes |-> 0,
                     steps |-> 0]
    /\ aret = [op |-> "init", impl |-> "None", on |-> "-", ex_type |-> "None",
               raised |-> "None", suppressed |-> FALSE, closes |-> 0]
    /\ IdleDev
    /\ IdleText
    /\ IdleRead
    /\ IdleInput
    /\ IdleKybd
    /\ IdleChars
    /\ IdleSound

(***************************************************************************)
(* SpecApi: calls on a Session, in any order.                              *)
(***************************************************************************)
NextApi ==
    \/ \E op \in ApiOps, made \in Makes, signal \in Signals : ApiCall(op, made, signal)
    \/ \E interface \in Interfaces, made \in Makes, signal \in {"None", "Error"} :
          ApiAttach(interface, made, signal)
    \/ \E signal \in {"None", "Error"} : ApiClose(signal)
    \/ ApiEnter
    \/ \E ex_type \in Signals, signal \in {"None", "Error"} : ApiExit(ex_type, signal)

SpecApi == InitApi /\ [][NextApi]_vars

(***************************************************************************)
(* SpecDev: the device protocol.  Files of every type and record length    *)
(* are opened on every device; the only strings written are DevStrings.    *)
(***************************************************************************)
NextDev ==
    \/ \E dev \in Devices, args \in DevOpenArgs, mode \in Modes :
          Open(dev, args[1], mode, args[2], MaxClones)
    \/ \E i \in 1..Len(files), w \in Widths : SetWidth(i, w)
    \/ \E i \in 1..Len(files), s \in DevStrings : Write(i, s, TRUE)
    \/ \E dev \in Devices : DeviceClose(dev)

SpecDev == InitDev /\ [][NextDev]_vars

(***************************************************************************)
(* SpecScrn: writing to SCRN: files.  One clone at a time, opened with     *)
(* the default record length; every string of ScrnStrings is written.      *)
(***************************************************************************)
NextScrn ==
    \/ \E filetype \in FileTypes, mode \in ScrnModes :
          Open("SCRN", filetype, mode, DefaultRecLen, MaxScrnClones)
    \/ \E i \in 1..Len(files), w \in Widths : SetWidth(i, w)
    \/ \E i \in 1..Len(files), s \in ScrnStrings, can_break \in BOOLEAN :
          Write(i, s, can_break)
    \/ \E i \in 1..Len(files), s \in ScrnStrings : WriteLine(i, s)
    \/ \E i \in 1..Len(files), query \in ScrnQueries : Query(i, query)

SpecScrn == InitDev /\ [][NextScrn]_vars

(***************************************************************************)
(* Claims about the master-file devices.                                   *)
(***************************************************************************)
\* the file class of a master-file device
ClassOf(dev) == IF dev = "SCRN" THEN "SCRNFile" ELSE "KYBDFile"

\* the width read from file f: SCRNFile.width, or the width attribute of a
\* KYBDFile
WidthRead(f, d) == IF f.cls = "SCRNFile" THEN ScrnWidth(f, d) ELSE f.width

\* C1: open on a device without a master file fails with DEVICE_UNAVAILABLE
\* whatever the mode; on SCRN a mode other than O, R and on KYBD a mode other
\* than I, R fails with BAD_FILE_MODE; a failed open creates no file, leaves
\* the master file and the display as they were and calls nothing.
C1_OpenFails ==
    [][ret'.op = "open" =>
         /\ device_file[ret'.dev] = 0 => ret'.res = "DEVICE_UNAVAILABLE"
         /\ (ret'.dev = "SCRN" /\ ret'.mode \notin {"O", "R"})
               => ret'.res = "BAD_FILE_MODE"
         /\ (ret'.dev = "KYBD" /\ ret'.mode \notin {"I", "R"})
               => ret'.res = "BAD_FILE_MODE"
         /\ ret'.res /= "ok" =>
               /\ ret'.res \in {"DEVICE_UNAVAILABLE", "BAD_FILE_MODE"}
               /\ files' = files
               /\ device_file' = device_file
               /\ display' = display
               /\ calls' = << >>
      ]_vars

\* a refused open on the device without a master file, in a mode no device
\* allows, while clones are open
C1_Witness ==
    /\ ret.op = "open" /\ ret.dev = "DEVICE" /\ ret.mode = "A"
    /\ ret.res = "DEVICE_UNAVAILABLE"
    /\ Len(files) > 2

\* C2: SCRN and KYBD each keep the one master file they were constructed
\* with, and a successful open returns a new object, not the master nor an
\* earlier clone (which are left as they were), flagged non-master and
\* carrying the mode, filetype and reclen passed to open.
C2_OneMasterNewClones ==
    [][/\ device_file' = device_file
       /\ \A dev \in {"SCRN", "KYBD"} :
             {i \in 1..Len(files') : files'[i].is_master /\ files'[i].cls = ClassOf(dev)}
                = {device_file[dev]}
       /\ (ret'.op = "open" /\ ret'.res = "ok") =>
             /\ ret'.file \notin 1..Len(files)
             /\ ret'.file \in 1..Len(files')
             /\ \A i \in 1..Len(files) : files'[i] = files[i]
             /\ ~files'[ret'.file].is_master
             /\ files'[ret'.file].cls = ClassOf(ret'.dev)
             /\ files'[ret'.file].mode = ret'.mode
             /\ files'[ret'.file].filetype = ret'.filetype
             /\ files'[ret'.file].reclen = ret'.reclen
      ]_vars

\* a second clone was opened, with another record length than the first,
\* after the master file was closed
C2_Witness ==
    /\ ret.op = "open" /\ ret.res = "ok" /\ ret.file = 4
    /\ files[3].reclen /= files[4].reclen
    /\ files[device_file[ret.dev]].closed

\* C3: set_width on a clone calls nothing on the display and changes the
\* width read from no other file; set_width(w) on a master file calls the
\* display's set_width(w) and leaves the width of every clone as it was.
C3_SetWidth ==
    [][ret'.op = "set_width" =>
         LET i == ret'.file
         IN /\ ~files[i].is_master =>
                 /\ calls' = << >>
                 /\ display' = display
                 /\ \A j \in 1..Len(files) :
                       j /= i => WidthRead(files'[j], display') = WidthRead(files[j], display)
            /\ files[i].is_master =>
                 /\ calls' = <<CallSetWidth(ret'.w)>>
                 /\ \A j \in 1..Len(files) :
                       ~files[j].is_master => WidthRead(files'[j], display') = files[j].width
      ]_vars

\* a clone was given a width that neither the master nor the other SCRN
\* clone reads
C3_Witness ==
    /\ ret.op = "set_width" /\ ret.file = 4
    /\ files[3].cls = "SCRNFile" /\ files[4].cls = "SCRNFile"
    /\ files[4].width = ret.w
    /\ files[3].width /= files[4].width
    /\ display.width /= files[4].width

\* C4: every call a SCRN file makes on the display while it is opened,
\* written or written a line carries echo exactly when the file is the
\* master file.
C4_EchoOnlyMaster ==
    (ret.op \in {"open", "write", "write_line"} /\ ret.file /= 0)
       => \A k \in 1..Len(calls) : calls[k].echo = files[ret.file].is_master

\* a clone wrote a character after an implicit line break
C4_Witness ==
    /\ ret.op = "write" /\ ~files[ret.file].is_master
    /\ Len(calls) = 2
    /\ calls[1].fn = "write_line" /\ calls[2].fn = "write"

\* the characters of s counted for the width
Printables(s) == Cardinality({i \in 1..Len(s) : s[i] >= FirstPrintable})

\* C5: a fault of the stream during close, input_chars, read, write or
\* write_line on a RawFile or a TextFileBase reaches the caller as
\* DEVICE_IO_ERROR, never as the raw fault.
C5_FaultsWrapped ==
    tret.op \in {"close", "input_chars", "read", "write", "write_line"}
       => tret.res \in {"ok", "DEVICE_IO_ERROR"}

\* a TextFileBase.write(s), can_break true, s without CR or LF, that
\* returned
C6_Case ==
    /\ tret.cls = "TextFileBase" /\ tret.op = "write" /\ tret.res = "ok"
    /\ tret.can_break
    /\ \A i \in 1..Len(tret.s) : tret.s[i] \notin {CR, LF}

\* C6 as stated: no line break iff c-1+L <= w, one line break (a single CR)
\* before the string iff c-1+L > w and w /= 255, for every c, c = 1 included.
C6_BreakIffOverflow ==
    C6_Case =>
       LET over == tret.col - 1 + Printables(tret.s) > tret.width
       IN /\ (tout = tret.s) <=> ~over
          /\ (tout = <<CR>> \o tret.s) <=> (over /\ tret.width /= NoWrapWidth)

\* C6, amended: one line break (a single CR, after which col counts from 1)
\* is inserted before the string iff c /= 1, w /= 255 and c-1+L > w;
\* otherwise no line break is inserted.
C6_BreakIffOverflowPastColOne ==
    C6_Case =>
       LET brk == /\ tret.col /= 1 /\ tret.width /= NoWrapWidth
                  /\ tret.col - 1 + Printables(tret.s) > tret.width
       IN /\ (tout = <<CR>> \o tret.s) <=> brk
          /\ (tout = tret.s) <=> ~brk
          /\ brk => tf.col = (Printables(tret.s) % (ColWrap - 1)) + 1

C6_Witness ==
    /\ C6_Case /\ tret.col = 2 /\ tret.width = 2
    /\ tret.s = <<LETTER, LETTER>> /\ tout = <<CR, LETTER, LETTER>>
    /\ tf.col = 3

\* col as the bytes written determine it: the printable bytes since the
\* last CR, counted from col0 when no CR was written, modulo 256
ColAfter(col0, out) ==
    LET crs == {i \in 1..Len(out) : out[i] = CR}
        last == IF crs = {} THEN 0 ELSE CHOOSE i \in crs : \A j \in crs : j <= i
        n == Printables(SubSeq(out, last + 1, Len(out)))
    IN (((IF last = 0 THEN col0 - 1 ELSE 0) + n) % (ColWrap - 1)) + 1

\* C7: col stays in 1..256 through write and write_line at any width: each
\* printable character adds 1 and 257 becomes 1, CR sets col to 1, other
\* control characters leave col unchanged.
C7_ColWraps ==
    /\ tf.col \in 1..(ColWrap - 1)
    /\ (tret.cls = "TextFileBase" /\ tret.op \in {"write", "write_line"})
          => tf.col = ColAfter(tret.col, tout)

\* 256 printable characters written from col 1 at width 255: col is 1 again
C7_Witness ==
    /\ tret.op = "write" /\ tret.res = "ok"
    /\ tret.col = 1 /\ tret.width = NoWrapWidth
    /\ tret.s = Run(ColWrap - 1) /\ tout = tret.s
    /\ tf.col = 1

\* what of the data can be read: the part before the first soft end of file
Visible(data) ==
    LET ends == {i \in 1..Len(data) : data[i] = EOFCHAR}
    IN IF ends = {} THEN data
       ELSE SubSeq(data, 1, (CHOOSE i \in ends : \A j \in ends : i <= j) - 1)

\* the place of the k-th CR of v; 0 before the first, past the end after the last
CRPlace(v, k) ==
    LET crs == {i \in 1..Len(v) : v[i] = CR}
    IN IF k = 0 THEN 0
       ELSE IF k > Cardinality(crs) THEN Len(v) + 1
       ELSE CHOOSE i \in crs : Cardinality({j \in crs : j <= i}) = k

\* the k-th of the lines of v that CR separates
Line(v, k) == SubSeq(v, CRPlace(v, k - 1) + 1, CRPlace(v, k) - 1)

CRCount(v) == Cardinality({i \in 1..Len(v) : v[i] = CR})

\* C8: on an input text file whose lines are shorter than 255 characters,
\* the k-th read_line returns the k-th line, with terminator CR when a CR
\* followed it and the empty terminator when the end of the stream (its
\* physical end or the byte 0x1A) ended it; after that, the empty line.
C8_LinesInOrder ==
    LET v == Visible(stream.data)
        k == rret.n
    IN (/\ rf.cls = "TextFileBase" /\ rf.mode \in {"I", "R"}
        /\ rret.op = "read_line"
        /\ \A j \in 1..(CRCount(v) + 1) : Len(Line(v, j)) < MaxLineLen)
       => IF k <= CRCount(v)
          THEN rret.line = Line(v, k) /\ rret.term = <<CR>>
          ELSE IF k = CRCount(v) + 1
               THEN rret.line = Line(v, k) /\ rret.term = << >>
               ELSE rret.line = << >> /\ rret.term = << >>

\* the second read_line of "A" CR "A" returns the second line and ''
C8_Witness ==
    /\ rf.cls = "TextFileBase" /\ rf.mode = "I"
    /\ stream.data = <<LETTER, CR, LETTER>>
    /\ rret.op = "read_line" /\ rret.n = 2
    /\ rret.line = <<LETTER>> /\ rret.term = << >>

\* what was unread when the last operation began: the lookahead and the
\* rest of the stream
Unread ==
    IF rret.next_char = << >> THEN << >>
    ELSE SubSeq(stream.data, rret.pos, Len(stream.data))

\* C9: read_line never returns more than 255 characters; when the next 255
\* unread characters hold no CR and no end of stream, it returns them, with
\* the terminator None when the character after them is not CR (or there is
\* none) and CR when it is CR; no other line has the terminator None.
C9_Cap ==
    rret.op = "read_line" =>
       /\ Len(rret.line) <= MaxLineLen
       /\ rret.term = None => Len(rret.line) = MaxLineLen
       /\ (/\ Len(Unread) >= MaxLineLen
           /\ \A i \in 1..MaxLineLen : Unread[i] \notin {CR, EOFCHAR})
          => /\ rret.line = SubSeq(Unread, 1, MaxLineLen)
             /\ rret.term = IF Len(Unread) > MaxLineLen /\ Unread[MaxLineLen + 1] = CR
                             THEN <<CR>> ELSE None

\* 255 letters and one more: the line is cut, the terminator is None
C9_Witness ==
    /\ rret.op = "read_line" /\ rret.n = 1
    /\ stream.data = Run(MaxLineLen) \o <<LETTER>>
    /\ rret.line = Run(MaxLineLen) /\ rret.term = None

\* C10: eof() is false in mode O or A on a text file and on a keyboard
\* file, without a peek of the keyboard; on a text file in mode I or R it
\* is true iff next_char is '' or 0x1A; it changes nothing of the file, and
\* nothing of the stream when it does not peek.
C10_Eof ==
    [][rret'.op = "eof" =>
         /\ rf' = rf
         /\ ~rret'.peeked => stream' = stream
         /\ rf.mode \in {"O", "A"} => (~rret'.res /\ ~rret'.peeked)
         /\ (rf.cls = "TextFileBase" /\ rf.mode \in {"I", "R"})
               => /\ rret'.res = (rf.next_char \in {<< >>, <<EOFCHAR>>})
                  /\ ~rret'.peeked]_vars

\* eof() on a keyboard file in mode A whose next key is 0x1A
C10_Witness ==
    /\ rret.op = "eof" /\ rf.cls = "KYBDFile" /\ rf.mode = "A"
    /\ stream.data = <<EOFCHAR>> /\ stream.pos = 0
    /\ ~rret.res /\ ~rret.peeked

(***************************************************************************)
(* Claims about INPUT# from a text file.                                   *)
(***************************************************************************)
\* what was unread when the last input_entry began, up to the soft end of
\* file
InputUnread ==
    IF iret.next_char = << >> THEN << >>
    ELSE Visible(SubSeq(stream.data, iret.pos, Len(stream.data)))

\* the first place from `from` on where v has a character outside set; past
\* the end of v when there is none
FirstNotIn(v, from, set) ==
    LET places == {i \in from..Len(v) : v[i] \notin set}
    IN IF places = {} THEN Len(v) + 1
       ELSE CHOOSE i \in places : \A j \in places : i <= j

\* the file is positioned just after the first n characters of what was
\* unread: the lookahead is the next character of the stream
PositionedAfter(n) ==
    LET p == iret.pos + n
    IN IF p <= Len(stream.data)
       THEN rf.next_char = <<stream.data[p]>> /\ stream.pos = p
       ELSE rf.next_char = << >> /\ stream.pos = Len(stream.data)

\* C11: input_entry with a numeric target, on a stream of spaces, commas, CR
\* and other characters that are neither LF nor NUL: the value is what lies
\* between the leading spaces and the first space, comma or CR after them
\* (when shorter than 255 characters); when that is a comma or CR, or spaces
\* and then a comma or CR, that comma or CR is consumed and returned and the
\* stream is left just after it.
C11_NumericField ==
    LET v == InputUnread
        start == FirstNotIn(v, 1, {SPACE})
        end == FirstNotIn(v, start, InputChars \ {SPACE, COMMA, CR})
        sep == FirstNotIn(v, end, {SPACE})
    IN (/\ iret.op = "input_entry" /\ iret.typechar /= STR
        /\ \A i \in 1..Len(v) : v[i] \notin {LF, NUL}
        /\ end - start < MaxEntryLen)
       => /\ iret.res = "ok" => iret.word = SubSeq(v, start, end - 1)
          /\ (sep <= Len(v) /\ v[sep] \in {COMMA, CR})
                => /\ iret.res = "ok"
                   /\ iret.term = <<v[sep]>>
                   /\ PositionedAfter(sep)

\* the second call on "  AA , A" CR returns ("A", CR)
C11_Witness ==
    /\ stream.data = TwoNumbers
    /\ iret.op = "input_entry" /\ iret.typechar /= STR
    /\ iret.pos = 7 /\ iret.next_char = <<SPACE>>
    /\ iret.word = <<LETTER>> /\ iret.term = <<CR>>
    /\ rf.next_char = << >>

\* s without its NUL bytes
WithoutNul(s) ==
    LET NotNul(b) == b /= NUL
    IN SelectSeq(s, NotNul)

\* C12: input_entry with a string target on a field whose opening quote
\* follows nothing or spaces (the last character skipped is not LF or NUL):
\* the value is every character up to the closing quote but the NULs, commas,
\* CR, LF and spaces included, without the quotes; when spaces and then a
\* comma or CR follow the closing quote, that comma or CR is consumed and
\* returned and the stream is left just after it.
C12_QuotedField ==
    LET v == InputUnread
        open == FirstNotIn(v, 1, {SPACE, LF, NUL})
        close == FirstNotIn(v, open + 1, InputChars \ {QUOTE})
        sep == FirstNotIn(v, close + 1, {SPACE})
        value == WithoutNul(SubSeq(v, open + 1, close - 1))
    IN (/\ iret.op = "input_entry" /\ iret.typechar = STR
        /\ open <= Len(v) /\ v[open] = QUOTE
        /\ open > 1 => v[open - 1] = SPACE
        /\ Len(value) < MaxEntryLen)
       => /\ iret.res = "ok" => iret.word = value
          /\ (close <= Len(v) /\ sep <= Len(v) /\ v[sep] \in {COMMA, CR})
                => /\ iret.res = "ok"
                   /\ iret.term = <<v[sep]>>
                   /\ PositionedAfter(sep)

\* "A, A" in quotes, two spaces and a comma: the value is A, A and the comma
\* after the spaces is the terminator
C12_Witness ==
    /\ stream.data = QuotedField
    /\ iret.op = "input_entry" /\ iret.typechar = STR /\ iret.pos = 1
    /\ iret.word = <<LETTER, COMMA, SPACE, LETTER>> /\ iret.term = <<COMMA>>
    /\ rf.next_char = <<LETTER>>

\* C13: the value returned by input_entry never contains a NUL, whatever the
\* target and wherever the NUL stood: before the field, in an unquoted field
\* or between quotes.
C13_NoNulInValue ==
    iret.op = "input_entry" => \A i \in 1..Len(iret.word) : iret.word[i] /= NUL

\* A NUL A is read as AA, for either target
C13_Witness ==
    /\ stream.data = <<LETTER, NUL, LETTER>>
    /\ iret.op = "input_entry" /\ iret.pos = 1
    /\ iret.word = <<LETTER, LETTER>>

\* the first place of v that the leading whitespace skip does not pass: a
\* character that is not whitespace, and not a CR right after an LF
SkipEnd(v) ==
    LET places == {i \in 1..Len(v) :
                     /\ <<v[i]>> \notin whitespace_input
                     /\ ~(v[i] = CR /\ i > 1 /\ v[i - 1] = LF)}
    IN IF places = {} THEN Len(v) + 1
       ELSE CHOOSE i \in places : \A j \in places : i <= j

\* the last whitespace character the leading skip consumed, '' when none
LastSkipped(v) ==
    LET n == SkipEnd(v)
    IN IF n = 1 THEN << >>
       ELSE IF <<v[n - 1]>> \in whitespace_input THEN <<v[n - 1]>>
       ELSE <<LF>>

\* C14: input_entry fails with INPUT_PAST_END exactly when no character is
\* left after the whitespace skip, allow_past_end is false and the last
\* skipped whitespace is neither LF nor NUL (quoting cannot apply then); a
\* stream that ends with the opening quote of a string field gives an empty
\* value and no failure.
C14_PastEnd ==
    LET v == InputUnread
    IN iret.op = "input_entry"
       => (iret.res = "INPUT_PAST_END"
             <=> /\ SkipEnd(v) > Len(v)
                 /\ ~iret.allow_past_end
                 /\ LastSkipped(v) \notin {<<LF>>, <<NUL>>})

\* C15: the value input_entry returns is never longer than 255.  A field
\* that starts with 255 characters, quoted or not, gives those 255 without
\* an error and leaves the file just after them; an unquoted string field of
\* 254 characters, a space and more gives the 254 and leaves the file after
\* the space.
C15_Cap ==
    LET v == InputUnread
        q == IF Len(v) > 0 /\ v[1] = QUOTE /\ iret.typechar = STR THEN 1 ELSE 0
    IN iret.op = "input_entry"
       => /\ Len(iret.word) <= MaxEntryLen
          /\ (Len(v) >= q + MaxEntryLen
                 /\ SubSeq(v, q + 1, q + MaxEntryLen) = Run(MaxEntryLen))
                => /\ iret.res = "ok"
                   /\ iret.word = Run(MaxEntryLen)
                   /\ PositionedAfter(q + MaxEntryLen)
          /\ (/\ iret.typechar = STR /\ Len(v) = MaxEntryLen + 1
              /\ v = Run(MaxEntryLen - 1) \o <<SPACE, LETTER>>)
                => /\ iret.res = "ok"
                   /\ iret.word = Run(MaxEntryLen - 1)
                   /\ PositionedAfter(MaxEntryLen)

\* 255 letters and one more: the 255 are returned and the last one is left
C15_Witness ==
    /\ stream.data = Run(MaxEntryLen) \o <<LETTER>>
    /\ iret.op = "input_entry" /\ iret.pos = 1 /\ iret.res = "ok"
    /\ iret.word = Run(MaxEntryLen)
    /\ rf.next_char = <<LETTER>> /\ stream.pos = MaxEntryLen + 1

(***************************************************************************)
(* Further claims about SCRN: files.                                       *)
(***************************************************************************)
\* C16: lof, loc and eof on a SCRN file, the master file or a clone in any
\* mode and wherever the cursor is, fail with BAD_FILE_MODE, make no call on
\* the display and leave the files and the display as they were.
C16_QueriesFail ==
    [][ret'.op \in ScrnQueries
          => /\ ret'.res = "BAD_FILE_MODE"
             /\ files' = files /\ display' = display /\ device_file' = device_file
             /\ calls' = << >>]_vars

\* eof was asked of a clone opened in mode R, the cursor past the last column
C16_Witness ==
    /\ ret.op = "eof" /\ ret.res = "BAD_FILE_MODE"
    /\ ~files[ret.file].is_master /\ files[ret.file].mode = "R"
    /\ display.overflow

\* the magic byte of the file types that have one
MagicByte(filetype) ==
    CASE filetype = "B" -> 255 [] filetype = "P" -> 254 [] filetype = "M" -> 253

\* C17: a successful open on SCRN: with file type B, P or M sends the
\* display exactly one character, the magic byte 0xFF, 0xFE or 0xFD, without
\* echo and with no line break, wherever the cursor is; with another file
\* type, and when the open fails, nothing is sent.
C17_OnlyMagicByte ==
    ret.op = "open"
       => calls = IF ret.res = "ok" /\ ret.dev = "SCRN" /\ ret.filetype \in {"B", "P", "M"}
                  THEN <<CallWrite(MagicByte(ret.filetype), FALSE)>>
                  ELSE << >>

\* C17 as amended: the magic byte is the only character sent and has no
\* echo; one line break without echo goes before it exactly when the cursor
\* column, counted one further when the overflow flag is set, is past the
\* width of the display.
C17_MagicByteAfterBreak ==
    [][ret'.op = "open"
          => calls' = IF ret'.res = "ok" /\ ret'.dev = "SCRN"
                         /\ ret'.filetype \in {"B", "P", "M"}
                      THEN (IF display.col + (IF display.overflow THEN 1 ELSE 0)
                                  > display.width
                            THEN <<CallWriteLine(FALSE)>> ELSE << >>)
                           \o <<CallWrite(MagicByte(ret'.filetype), FALSE)>>
                      ELSE << >>]_vars

\* a file of type P was opened with the cursor past the last column: a line
\* break and 0xFE were sent
C17_Witness ==
    /\ ret.op = "open" /\ ret.res = "ok" /\ ret.filetype = "P"
    /\ calls = <<CallWriteLine(FALSE), CallWrite(254, FALSE)>>

(***************************************************************************)
(* Claims about the keyboard file.                                         *)
(***************************************************************************)
\* the first key after place `from` of the keys typed that read_one returns
\* and that is outside set; past the end when there is none
FirstKeyNotIn(from, set) ==
    LET places == {i \in (from + 1)..Len(keyboard.keys) :
                     /\ input_replace(keyboard.keys[i]) /= << >>
                     /\ input_replace(keyboard.keys[i]) \notin set}
    IN IF places = {} THEN Len(keyboard.keys) + 1
       ELSE CHOOSE i \in places : \A j \in places : i <= j

\* the first quote key typed after place `from`; past the end when there is none
FirstQuoteAfter(from) ==
    LET places == {i \in (from + 1)..Len(keyboard.keys) : keyboard.keys[i] = <<QUOTE>>}
    IN IF places = {} THEN Len(keyboard.keys) + 1
       ELSE CHOOSE i \in places : \A j \in places : i <= j

\* the last input_entry, had it found the slot empty and its content typed
\* as the next key
AsTyped ==
    input_entry_realtime([input_last |-> << >>],
                         [keys |-> <<kret.input_last>>
                                      \o SubSeq(keyboard.keys, kret.pos + 1,
                                                Len(keyboard.keys)),
                          pos |-> 0],
                         kret.typechar, kret.allow_past_end)

\* C18: input_entry on the keyboard file.  After the closing quote of a
\* string field the first key that is not whitespace is the last one read:
\* it is kept in the slot unless it is a comma or CR.  A call that finds the
\* slot full empties it and does what it would do had that character been
\* typed next: the field starts with it, and the same keys are read after
\* it, so nothing is lost and nothing comes twice.  The slot only ever holds
\* what one read returned.
C18_Pushback ==
    LET open == kret.pos + 1
        close == FirstQuoteAfter(open)
        after == FirstKeyNotIn(close, whitespace_input)
    IN kret.op = "input_entry"
       => /\ (/\ kret.typechar = STR /\ kret.input_last = << >>
               /\ keyboard.keys[open] = <<QUOTE>>)
               => /\ after <= Len(keyboard.keys)
                  /\ keyboard.pos = after
                  /\ kret.term = input_replace(keyboard.keys[after])
                  /\ kf.input_last = IF kret.term \in {<<COMMA>>, <<CR>>} THEN << >>
                                     ELSE kret.term
          /\ kret.input_last /= << >>
               => /\ ~AsTyped.blocked
                  /\ kret.word = AsTyped.word /\ kret.term = AsTyped.c
                  /\ kret.res = AsTyped.res
                  /\ kf.input_last = AsTyped.input_last
                  /\ keyboard.pos - kret.pos = AsTyped.kb.pos - 1
                  /\ (kret.input_last /= <<QUOTE>> \/ kret.typechar /= STR)
                        => /\ Len(kret.word) >= Len(kret.input_last)
                           /\ SubSeq(kret.word, 1, Len(kret.input_last))
                                 = kret.input_last
          /\ kf.input_last /= << >>
               => /\ keyboard.pos >= 1
                  /\ kf.input_last = input_replace(keyboard.keys[keyboard.pos])

\* "A" and then A were typed, then a comma: the call after the one that read
\* the quoted field found A in the slot and returned it as its field
C18_Witness ==
    /\ kret.op = "input_entry" /\ kret.typechar = STR
    /\ kret.input_last = <<LETTER>> /\ kret.pos = 4
    /\ SubSeq(keyboard.keys, 1, 4) = <<<<QUOTE>>, <<LETTER>>, <<QUOTE>>, <<LETTER>>>>
    /\ kret.word = <<LETTER>> /\ kret.term = <<COMMA>>
    /\ kf.input_last = << >> /\ keyboard.pos = 5

\* what a key gives INPUT$: NUL for a key of the translation table, the key
\* itself when it is one byte, nothing otherwise
Contribution(key) ==
    IF key \in {EA_HOME, EA_PAGEUP, EA_F1} THEN <<NUL>>
    ELSE IF Len(key) = 1 THEN key ELSE << >>

\* C19: input_chars(num) on the keyboard file returns exactly num bytes: in
\* the order typed, NUL for each key of the translation table, each other
\* one-byte key itself, nothing for another multi-byte code, and it reads no
\* key past the one that gave the last byte.  read_one returns the whole
\* translation of the first key that has a non-empty one, never nothing.
C19_InputCharsAndReadOne ==
    LET read == SubSeq(keyboard.keys, kret.pos + 1, keyboard.pos)
    IN /\ kret.op = "input_chars"
            => /\ Len(kret.word) = kret.num
               /\ kret.word = Join([i \in 1..Len(read) |-> Contribution(read[i])])
               /\ Contribution(read[Len(read)]) /= << >>
       /\ kret.op = "read_one"
            => /\ kret.word /= << >>
               /\ keyboard.pos = FirstKeyNotIn(kret.pos, {})
               /\ kret.word = input_replace(keyboard.keys[keyboard.pos])

\* F1, Home, Ctrl+F1 were typed: INPUT$(2) gives two NULs and has read the
\* two first keys only
C19_Witness ==
    /\ keyboard.keys = <<EA_F1, EA_HOME, EA_CTRL_F1>>
    /\ kret.op = "input_chars" /\ kret.num = 2 /\ kret.pos = 0
    /\ kret.word = <<NUL, NUL>> /\ keyboard.pos = 2

(***************************************************************************)
(* A further claim about TextFileBase, written to.                         *)
(***************************************************************************)
\* C20: write_line(s) on a TextFileBase leaves on the stream the bytes that
\* write(s) and then a write of CR leave, and the same col, from every col
\* and width and for every s, also when s overflows the width.
C20_WriteLineIsWriteThenCR ==
    (tret.cls = "TextFileBase" /\ tret.op = "write_line" /\ tret.res = "ok")
       => LET f0 == [col |-> tret.col, width |-> tret.width]
              w1 == TextWrite(f0, tret.s, TRUE, 0)
              w2 == TextWrite([f0 EXCEPT !.col = w1.col], <<CR>>, TRUE, 0)
          IN /\ tout = w1.out \o w2.out
             /\ tf.col = w2.col

(***************************************************************************)
(* Further claims about INPUT# from a text file.                           *)
(***************************************************************************)
\* s without the spaces at its end
RStrip(s) ==
    LET places == {i \in 1..Len(s) : s[i] /= SPACE}
    IN IF places = {} THEN << >>
       ELSE SubSeq(s, 1, CHOOSE i \in places : \A j \in places : j <= i)

C22_SpacesInField ==
    LET v == InputUnread
        n == SkipEnd(v)
        quoted == /\ n <= Len(v) /\ v[n] = QUOTE /\ iret.typechar = STR
                  /\ LastSkipped(v) \notin {<<LF>>, <<NUL>>}
        end == FirstNotIn(v, n, InputChars \ {COMMA, CR})
        field == SubSeq(v, n, end - 1)
    IN (iret.op = "input_entry" /\ iret.res = "ok" /\ ~quoted)
       => /\ iret.typechar /= STR
               => \A i \in 1..Len(iret.word) : iret.word[i] /= SPACE
          /\ iret.typechar = STR
               => /\ iret.word /= << >>
                       => iret.word[1] /= SPACE /\ iret.word[Len(iret.word)] /= SPACE
                  /\ (/\ Len(field) < MaxEntryLen
                      /\ \A i \in 1..Len(field) : field[i] \notin {LF, NUL})
                        => iret.word = RStrip(field)

\* "A A " read for a string target gives A A
C22_Witness ==
    /\ stream.data = <<LETTER, SPACE, LETTER, SPACE>>
    /\ iret.op = "input_entry" /\ iret.typechar = STR /\ iret.pos = 1
    /\ iret.word = <<LETTER, SPACE, LETTER>>

\* the characters of v at the places K, in their order
Pick(v, K) ==
    [j \in 1..Cardinality(K) |->
        v[CHOOSE i \in K : Cardinality({k \in K : k <= i}) = j]]

\* place i of v holds a CR right after an LF
CRAfterLF(v, i) == v[i] = CR /\ i > 1 /\ v[i - 1] = LF

\* C23: outside quotes an LF is never part of the value, and a CR right
\* after an LF is dropped with it and does not end the field, in the leading
\* whitespace and in the field itself: the value of a short field is what
\* stands up to the first comma or CR that does not follow an LF (for a
\* number also up to a space), without LF, those CR, NUL and the spaces at
\* its end, and that comma or CR is the terminator.
C23_LfCrDropped ==
    LET v == InputUnread
        n == SkipEnd(v)
        quoted == /\ n <= Len(v) /\ v[n] = QUOTE /\ iret.typechar = STR
                  /\ LastSkipped(v) \notin {<<LF>>, <<NUL>>}
        stops == IF iret.typechar = STR THEN {COMMA, CR} ELSE {SPACE, COMMA, CR}
        ends == {i \in n..Len(v) : v[i] \in stops /\ ~CRAfterLF(v, i)}
        end == IF ends = {} THEN Len(v) + 1
               ELSE CHOOSE i \in ends : \A j \in ends : i <= j
        kept == {i \in n..(end - 1) : v[i] \notin {LF, NUL} /\ ~CRAfterLF(v, i)}
    IN (iret.op = "input_entry" /\ iret.res = "ok" /\ ~quoted)
       => /\ \A i \in 1..Len(iret.word) : iret.word[i] /= LF
          /\ Len(v) <= 2 * MaxInputLen + 1
               => /\ iret.word = RStrip(Pick(v, kept))
                  /\ (end <= Len(v) /\ v[end] \in {COMMA, CR})
                        => iret.term = <<v[end]>> /\ PositionedAfter(end)

\* A, LF, CR, B and a comma give AB and the comma
C23_Witness ==
    /\ stream.data = LfCrField
    /\ iret.op = "input_entry" /\ iret.pos = 1
    /\ iret.word = <<LETTER, LETTER>> /\ iret.term = <<COMMA>>

(***************************************************************************)
(* Claims about reads of every kind on one text file.                      *)
(***************************************************************************)
\* what was unread when the last read began: the lookahead and the rest of
\* the stream
CharsUnread ==
    IF cret.f.next_char = << >> THEN << >>
    ELSE SubSeq(stream.data, cret.pos, Len(stream.data))

\* C24: input_chars(num) returns at most num characters (all there are for
\* num = -1), the first ones of what was unread before the first 0x1A, and
\* leaves the lookahead on the character after them, so never past a 0x1A;
\* after it char is the last character returned and last the one before.
\* End of file is absorbing: a read that begins at end of file on a file in
\* mode I or R returns no character and no terminator and leaves the file
\* and the stream as they were, so eof() stays true.
C24_InputCharsAndEof ==
    /\ [](cret.op = "input_chars" =>
            LET vis == Visible(CharsUnread)
                k == Len(cret.out)
            IN /\ cret.num >= 0 => k <= cret.num
               /\ k = IF cret.num >= 0 /\ cret.num < Len(vis) THEN cret.num ELSE Len(vis)
               /\ cret.out = SubSeq(vis, 1, k)
               /\ rf.next_char = IF k < Len(CharsUnread) THEN <<CharsUnread[k + 1]>>
                                 ELSE << >>
               /\ stream.pos = IF cret.pos + k <= Len(stream.data) THEN cret.pos + k
                               ELSE Len(stream.data)
               /\ \A i \in 1..Len(stream.data) :
                     stream.data[i] = EOFCHAR => stream.pos <= i
               /\ k >= 1 => rf.char = <<cret.out[k]>>
               /\ k >= 2 => rf.last = <<cret.out[k - 1]>>
               /\ k = 1 => rf.last = cret.f.char)
    /\ []((cret.op \in {"input_chars", "read_one", "read_line", "input_entry"}
              /\ TextEof(cret.f))
            => /\ cret.out = << >> /\ cret.term = << >>
               /\ rf = cret.f /\ stream.pos = cret.pos)
    /\ [][TextEof(rf) => TextEof(rf')]_vars

\* input_chars(2) on 'A' 0x1A 'A' returns 'A' and stays before the 0x1A
C24_Witness ==
    /\ stream.data = <<LETTER, EOFCHAR, LETTER>>
    /\ cret.op = "input_chars" /\ cret.num = 2 /\ cret.pos = 1
    /\ cret.out = <<LETTER>> /\ rf.next_char = <<EOFCHAR>> /\ stream.pos = 2

\* input_entry at end of file, after input_chars took the whole stream
C24_WitnessEof ==
    /\ stream.data = <<LETTER, CR>>
    /\ cret.op = "input_entry" /\ cret.allow_past_end /\ TextEof(cret.f)
    /\ cret.pos = 2 /\ cret.out = << >>

(***************************************************************************)
(* A further claim about read_line.                                        *)
(***************************************************************************)
\* C25: when read_line on an input text file returns the terminator CR,
\* that CR is the character after the line in the stream and has been
\* consumed: the lookahead is the character after it.  So on a stream whose
\* lines are at most 255 characters long, a read_line that returns CR is
\* one of the first n, n being the number of CRs, and returns the line
\* before its CR; a line of exactly 255 characters and its CR included.
C25_CRConsumed ==
    LET v == Visible(stream.data)
        k == rret.n
        p == rret.pos + Len(rret.line)
    IN (/\ rf.cls = "TextFileBase" /\ rf.mode \in {"I", "R"}
        /\ rret.op = "read_line" /\ rret.term = <<CR>>)
       => /\ p <= Len(stream.data) /\ stream.data[p] = CR
          /\ IF p + 1 <= Len(stream.data)
             THEN stream.pos = p + 1 /\ rf.next_char = <<stream.data[p + 1]>>
             ELSE stream.pos = Len(stream.data) /\ rf.next_char = << >>
          /\ (\A j \in 1..(CRCount(v) + 1) : Len(Line(v, j)) <= MaxLineLen)
                => k <= CRCount(v) /\ rret.line = Line(v, k)

(***************************************************************************)
(* Further claims about the SCRN: files.                                   *)
(***************************************************************************)
\* the printable characters of s less its backspaces
WidthOf(s) ==
    Cardinality({i \in 1..Len(s) : s[i] >= FirstPrintable})
       - Cardinality({i \in 1..Len(s) : s[i] = BS})

\* C26: on every SCRN file, the master and the clones, write(s, can_break)
\* breaks the line before the string iff can_break, the width is not 255,
\* the cursor is not on the last row, C /= 1, C - 1 + W > width and s has
\* no CR or LF; C is the column of the screen, one higher when the screen
\* has overflowed, and W the printable characters of s less its backspaces.
C26_BreakRule ==
    \A i \in 1..Len(files) :
       files[i].cls = "SCRNFile" =>
          \A s \in ScrnStrings, can_break \in BOOLEAN :
             LET f0 == ScrnStart(files[i], display)
                 C == display.col + (IF display.overflow THEN 1 ELSE 0)
                 width == ScrnWidth(f0, display)
             IN ScrnBreaks(f0, display, s, can_break)
                   <=> /\ can_break
                       /\ width /= NoWrapWidth
                       /\ display.row /= Height
                       /\ C /= 1
                       /\ C - 1 + WidthOf(s) > width
                       /\ \A k \in 1..Len(s) : s[k] \notin {CR, LF}

\* the column from which the next write of file f starts
StartCol(f, d) == ScrnCol(ScrnStart(f, d), d)

\* C27: the column from which a write of a SCRN clone starts is the clone's
\* own: a write or write_line made through the master or through another
\* clone leaves it as it was.
C27_CloneColumnPrivate ==
    [][\A i \in 1..Len(files) :
          (/\ files[i].cls = "SCRNFile" /\ ~files[i].is_master
           /\ ret'.op \in {"write", "write_line"} /\ ret'.file /= i)
          => StartCol(files'[i], display') = StartCol(files[i], display)]_vars

(***************************************************************************)
(* Further claims about the keyboard file.                                 *)
(***************************************************************************)
\* C28: on an input of letters, spaces, quotes, commas and CRs that ends in
\* CR, given to a text file as its bytes and to a keyboard file as keys
\* typed, successive input_entry calls with the same target type return the
\* same values on both, as long as the text file is not past its end.
C28_SameValues ==
    (iret.op = "input_entry" /\ kret.op = "input_entry"
        /\ iret.res = "ok" /\ kret.res = "ok")
    => kret.word = iret.word

\* C29: input_entry on the keyboard file never fails with INPUT_PAST_END,
\* whatever the keys, the target type and allow_past_end: when it returns,
\* it returns a field.
C29_NoPastEnd ==
    kret.op = "input_entry" => kret.res = "ok"

\* F1, a letter and CR typed, allow_past_end false: the field is the letter,
\* and no key is left
C29_Witness ==
    /\ keyboard.keys = <<EA_F1, <<LETTER>>, <<CR>>>>
    /\ kret.op = "input_entry" /\ ~kret.allow_past_end /\ kret.pos = 0
    /\ kret.res = "ok" /\ kret.word = <<LETTER>> /\ kret.term = <<CR>>
    /\ keyboard.pos = Len(keyboard.keys)

\* C30: the value input_entry returns on the keyboard file is never longer
\* than 255 bytes, keys with a two-byte translation included.
C30_ValueCap ==
    kret.op = "input_entry" => Len(kret.word) <= MaxEntryLen

(***************************************************************************)
(* A claim about console INPUT.                                            *)
(***************************************************************************)
\* s without its spaces
WithoutSpaces(s) == Pick(s, {i \in 1..Len(s) : s[i] /= SPACE})

\* C31: on an InputTextFile over a line of digits, spaces, commas and CRs,
\* input_entry with a numeric target returns what stands before the first
\* comma or CR, or the end of the line, without its spaces, and that comma
\* or CR as the terminator ('' at the end of the line); the file is then
\* just past it.  So "1 2,3" gives "12" and "," and then "3" and ''.  On a
\* plain text file the first value of that line is "1".
C31_ConsoleNumeric ==
    LET v == InputUnread
        end == FirstNotIn(v, 1, {LETTER, LETTER + 1, SPACE})
    IN (iret.op = "input_entry" /\ iret.typechar /= STR /\ iret.res = "ok")
       => /\ rf.cls = "InputTextFile"
               => /\ iret.word = WithoutSpaces(SubSeq(v, 1, end - 1))
                  /\ iret.term = IF end <= Len(v) THEN <<v[end]>> ELSE << >>
                  /\ PositionedAfter(end)
          /\ (rf.cls = "TextFileBase" /\ stream.data = SpacedNumber /\ iret.pos = 1)
               => iret.word = <<LETTER>>

\* the second value of "1 2,3" on an InputTextFile
C31_Witness ==
    /\ rf.cls = "InputTextFile" /\ stream.data = SpacedNumber
    /\ iret.op = "input_entry" /\ iret.typechar /= STR /\ iret.pos = 5
    /\ iret.word = <<LETTER>> /\ iret.term = << >>

\* the first value of "1 2,3" on an InputTextFile
C31_WitnessFirst ==
    /\ rf.cls = "InputTextFile" /\ stream.data = SpacedNumber
    /\ iret.op = "input_entry" /\ iret.typechar /= STR /\ iret.pos = 1
    /\ iret.word = <<LETTER, LETTER + 1>> /\ iret.term = <<COMMA>>
(***************************************************************************)
(* C32: after Sound.emit_synch, which the first tone of a PLAY statement   *)
(* runs, the three tone voices end at the same time, whatever the queues   *)
(* held, a looping tone after timed tones included; it runs once in the    *)
(* statement and leaves the synch flag cleared.                            *)
(***************************************************************************)
C32_SynchAligns ==
    (sret.op = "play" /\ sret.synchs > 0) =>
       /\ sret.after[0] = sret.after[1]
       /\ sret.after[1] = sret.after[2]
       /\ sret.synchs = 1
       /\ ~sret.synch

\* the same, for the queues in which no looping tone follows unexpired items
C32_AlignsWithoutLoopAfterTimed ==
    (sret.op = "play" /\ sret.synchs > 0 /\ ~sret.mixed) =>
       /\ sret.after[0] = sret.after[1]
       /\ sret.after[1] = sret.after[2]
       /\ sret.synchs = 1
       /\ ~sret.synch

\* emit_synch has run on queues of which one held a looping tone after a
\* timed one
C32_LoopAfterTimedCase ==
    sret.op = "play" /\ sret.synchs > 0 /\ sret.mixed

\* emit_synch runs once and clears the flag, in every PLAY statement
C32_OnceAndCleared ==
    /\ ~synch
    /\ sret.synchs <= 1
    /\ sret.synchs > 0 => ~sret.synch

(***************************************************************************)
(* C33: as time passes, Sound.wait returns, from every state SOUND, BEEP   *)
(* and PLAY lead to: a wait that has begun ends, also when a looping tone  *)
(* was left on a tone voice.                                               *)
(***************************************************************************)
C33_WaitReturns == waiting.on ~> ~waiting.on

\* some tone voice holds a looping tone
LoopQueued ==
    \E v \in ToneVoices : \E i \in 1..Len(voice_queue[v].deque) :
       voice_queue[v].deque[i].loop

\* the same, for the waits that begin with no looping tone on a tone voice
C33_WaitReturnsWithoutLoop == (waiting.on /\ ~LoopQueued) ~> ~waiting.on

\* a wait returns only when the queues are as short as it asked
C33_ReturnsWhenShort ==
    [][(waiting.on /\ ~waiting'.on) =>
          \A v \in ToneVoices : Len(voice_queue'[v].deque) <= waiting.length]_vars

\* a background wait goes on while a voice holds more than 33 items
C33_BackgroundWaits ==
    /\ waiting.on
    /\ ~foreground
    /\ sret.op = "play"
    /\ Len(voice_queue[0].deque) = BACKGROUND_BUFFER_LENGTH + 2

(***************************************************************************)
(* C34: over any sequence of calls on a Session the implementation is made *)
(* at most once, by the first call that uses it; every call other than     *)
(* close that reaches the implementation finds one; close on a session     *)
(* that was never started changes nothing; __exit__ always calls close and *)
(* suppresses the exception only when it is Exit or Break.                 *)
(***************************************************************************)
C34_Created ==
    /\ session.created <= 1
    /\ (session.impl = "None") <=> (session.created = 0)
    /\ aret.on /= "-" => aret.on = "Implementation"
    /\ (aret.op \in ApiOps \cup {"attach"} /\ session.impl = "None") =>
          aret.raised = "Error"

C34_Exit ==
    aret.op = "exit" =>
       /\ aret.closes = 1
       /\ session.impl_closes > 0 <=> session.impl /= "None"
       /\ aret.suppressed => aret.ex_type \in {"Exit", "Break"}
       /\ (aret.ex_type \in {"Exit", "Break"} /\ aret.raised = "None") => aret.suppressed

C34_SessionLifecycle ==
    /\ [](C34_Created /\ C34_Exit)
    /\ [][(aret'.op = "close" /\ session.impl = "None") =>
             /\ session' = [session EXCEPT !.steps = @ + 1]
             /\ aret'.raised = "None"]_vars
    /\ [][(session.impl /= "None") =>
             (session'.impl = session.impl /\ session'.created = session.created)]_vars

\* an implementation was made by a call inside the context guard, and the
\* guard was left with Exit, which __exit__ suppressed after closing
C34_Witness ==
    /\ aret.op = "exit"
    /\ aret.ex_type = "Exit"
    /\ aret.suppressed
    /\ session.created = 1
    /\ session.impl_closes = 1
    /\ session.attached = "a"

\* close was called on a session that was never started
C34_WitnessCloseUnstarted ==
    aret.op = "close" /\ aret.impl = "None" /\ session.steps > 1

\* the guard was left with another error, which is not suppressed
C34_WitnessNotSuppressed ==
    aret.op = "exit" /\ aret.ex_type = "Error" /\ ~aret.suppressed /\ aret.raised = "None"

====
